---- MODULE Spec2Model ----
(***************************************************************************)
(* A model of the LinkedIn candidate-sourcing client of denisliv/Sourcer:  *)
(*   - RateLimiter            (src/linkedin_api/rate_limiter.py)           *)
(*   - search_linkedin        (src/app/services/linkedin_service.py,       *)
(*                             src/app/services/linkedin_oauth.py)         *)
(*   - Linkedin._search and _fetch_search_with_fallback                    *)
(*                            (src/linkedin_api/linkedin.py)               *)
(*   - Linkedin._denormalize / _resolve (src/linkedin_api/linkedin.py)     *)
(*   - Linkedin.get_profile   (src/linkedin_api/linkedin.py)               *)
(*   - BrowserManager, login_with_credentials                              *)
(*                            (src/linkedin_api/browser.py)                *)
(*   - Client.authenticate    (src/linkedin_api/client.py)                 *)
(* Each component has its own specification; the variables of the other    *)
(* components stay at their idle values in it.                             *)
(***************************************************************************)
EXTENDS Integers, Sequences, FiniteSets, TLC

VARIABLES
    \* ---- RateLimiter ----
    clock,              \* the value time.time() returned last
    rpm,                \* self.requests_per_minute
    min_delay,          \* self.min_delay
    max_delay,          \* self.max_delay
    request_times,      \* self.request_times (deque, oldest first)
    last_request_time,  \* self.last_request_time (NoTime = None)
    lastDelay,          \* the value the last wait() returned
    waits,              \* number of wait() calls made
    recorded,           \* every timestamp wait() has recorded so far
    rlog,               \* the wait() and reset() calls made, in order
    lock,               \* self.lock: the thread holding it, or NoOwner
    lpc,                \* lpc[t]: position of thread t in wait() or reset()
    ldelay,             \* ldelay[t]: delay of the wait() thread t is in
    \* ---- search_linkedin (one invocation) ----
    cred,               \* the decrypted credential record (input)
    opc,                \* position of the invocation
    cookies_jar,        \* cookies_jar (NoCookies = None or an empty jar)
    cookies_storage,    \* cookies_storage
    cookies_to_persist, \* cookies_to_persist as ensure_cookies returned it
    new_storage,        \* new_storage of the refresh tier
    api_err,            \* api_err, the error of the first structured search
    oresult,            \* what the invocation returned or raised
    olog,               \* the logins, searches and scraper runs made, in order
    \* ---- Linkedin._fetch_search_with_fallback ----
    active,             \* Linkedin._active_search_query_id (class attribute)
    backend,            \* the status LinkedIn answers each query id with
    backendChanges,     \* number of changes of backend so far
    calls,              \* calls[t]: calls thread t has started
    fpc,                \* fpc[t]: position of thread t in the call
    fqid,               \* fqid[t]: the query id of the URI built last
    fstart,             \* fstart[t]: the active id when the call began
    fidx,               \* fidx[t]: index of the for loop over _SEARCH_QUERY_IDS
    freqs,              \* freqs[t]: the requests of the call and their statuses
    fout,               \* fout[t]: what the call returned or raised
    frot,               \* frot[t]: the id the call made active, if any
    lastGood,           \* the query id answered with 200 last, by any call
    \* ---- Linkedin._search ----
    spc,                \* position of the paginated search
    limit,              \* limit
    count,              \* count
    results,            \* results
    pages,              \* the pages the search received, in order
    nreq,               \* number of pages the search requested
    sout,               \* "ok" when the search returned, else what it raised
    \* ---- Linkedin._denormalize ----
    included,           \* raw["included"]
    rroot,              \* the reference held by the marked field of raw["data"]
    rpc,                \* position of the resolution
    rref,               \* the reference string _resolve is called with
    rdepth,             \* number of entities whose resolution is in progress
    rvalue,             \* what the references resolved to, outermost first
    \* ---- Linkedin.get_profile ----
    ppc,                \* position of the call
    public_id,          \* public_id (NoId = None)
    urn_id,             \* urn_id (NoId = None)
    dec,                \* index of the decoration tried next
    plog,               \* the wait() calls and HTTP requests made, in order
    pout,               \* "profile" or "empty": what the call returned
    \* ---- BrowserManager ----
    handles,            \* handles[k]: is the handle of resource k set (not None)
    resources,          \* resources[k]: "none", "open" or "closed"
    created,            \* the resources the last start() created
    held,               \* the handles set when the last close() began
    attempts,           \* the close attempts of the last close(), in order
    bops,               \* the start() and close() calls made, and what they raised
    \* ---- login_with_credentials ----
    gpc,                \* position of the call
    landing,            \* what the login page showed right after page.goto
    page_url,           \* page.url
    timeout,            \* timeout, in seconds
    elapsed,            \* time.time() - start of the checkpoint poll, in seconds
    polls,              \* number of times the poll looked at page.url
    inner_err,          \* the exception raised inside the try block, if any
    login_out,          \* what the call raised, or "returned"
    \* ---- Client.authenticate ----
    apc,                \* position of the call
    has_jsessionid,     \* do the anonymous session cookies hold JSESSIONID
    res_status,         \* res.status_code of the credential POST
    res_body,           \* the body of the response to the credential POST
    auth_out,           \* what the call raised, or "returned"
    \* ---- search_linkedin_sync / Linkedin.search_people ----
    cpc,                \* position of the call
    raw_items,          \* what _search returned: the elements of all pages
    sp_results,         \* what search_people returned
    candidates,         \* what search_linkedin_sync returned
    \* ---- PeopleSearchScraper.search ----
    kpc,                \* position of the call
    max_pages,          \* the argument, then the local the code clamps
    page_num,           \* the loop variable
    all_results,        \* cards collected so far
    pages_scraped,      \* the counter the response reports
    klog,               \* history: one entry per page navigated to
    unique,             \* the result list of the response
    \* ---- get_profile: sections of the denormalized profile ----
    xpc,                \* position of the call
    section,            \* the section looked at
    elements,           \* its element list after _resolve
    extracted,          \* what _extract_profile_section returned
    cleaned,            \* result[section] after _clean_sections
    \* ---- application sessions: login, get_current_user, logout ----
    db_now,             \* datetime.now(timezone.utc), in days
    db_users,           \* rows of the users table
    db_sessions,        \* rows of the sessions table
    issued,             \* number of session tokens generated so far
    logged_out,         \* history: tokens whose session a logout deleted
    last_request,       \* history: the last protected request handled
    \* ---- Client.set_cookies ----
    session_cookies,    \* self.session.cookies
    csrf_token,         \* self.session.headers["csrf-token"]
    prev_cookies,       \* history: the jar held before the last call
    prev_token,         \* history: the header before the last call
    set_out             \* what the last call raised, or "returned"

rlVars == <<clock, rpm, min_delay, max_delay, request_times, last_request_time,
            lastDelay, waits, recorded, rlog, lock, lpc, ldelay>>
orchVars == <<cred, opc, cookies_jar, cookies_storage, cookies_to_persist,
              new_storage, api_err, oresult, olog>>

qidVars == <<active, backend, backendChanges, calls, fpc, fqid, fstart, fidx,
             freqs, fout, frot, lastGood>>
searchVars == <<spc, limit, count, results, pages, nreq, sout>>
resolveVars == <<included, rroot, rpc, rref, rdepth, rvalue>>

profileVars == <<ppc, public_id, urn_id, dec, plog, pout>>

browserVars == <<handles, resources, created, held, attempts, bops>>

loginVars == <<gpc, landing, page_url, timeout, elapsed, polls, inner_err,
               login_out>>

authVars == <<apc, has_jsessionid, res_status, res_body, auth_out>>

peopleVars == <<cpc, raw_items, sp_results, candidates>>

scraperVars == <<kpc, max_pages, page_num, all_results, pages_scraped, klog, unique>>

cleanVars == <<xpc, section, elements, extracted, cleaned>>

sessVars == <<db_now, db_users, db_sessions, issued, logged_out,
              last_request>>

cookiesVars == <<session_cookies, csrf_token, prev_cookies, prev_token, set_out>>

vars == <<rlVars, orchVars, qidVars, searchVars, resolveVars,
          profileVars, browserVars, loginVars, authVars, peopleVars,
          scraperVars, cleanVars, sessVars,
          cookiesVars>>

\* What an action of one component leaves alone: the other components.
RLFrame ==
    UNCHANGED <<orchVars, qidVars, searchVars, resolveVars, profileVars,
                browserVars, loginVars, authVars, peopleVars, scraperVars,
                cleanVars, sessVars, cookiesVars>>
OrchFrame ==
    UNCHANGED <<rlVars, qidVars, searchVars, resolveVars, profileVars,
                browserVars, loginVars, authVars, peopleVars, scraperVars,
                cleanVars, sessVars, cookiesVars>>
QidFrame ==
    UNCHANGED <<rlVars, orchVars, resolveVars, profileVars, browserVars,
                loginVars, authVars, peopleVars, scraperVars, cleanVars,
                sessVars, cookiesVars>>
SearchFrame ==
    UNCHANGED <<rlVars, orchVars, resolveVars, profileVars, browserVars,
                loginVars, authVars, peopleVars, scraperVars, cleanVars,
                sessVars, cookiesVars>>
ResolveFrame ==
    UNCHANGED <<rlVars, orchVars, qidVars, searchVars, profileVars,
                browserVars, loginVars, authVars, peopleVars, scraperVars,
                cleanVars, sessVars, cookiesVars>>
BrowserFrame ==
    UNCHANGED <<rlVars, orchVars, qidVars, searchVars, resolveVars,
                profileVars, loginVars, authVars, peopleVars, scraperVars,
                cleanVars, sessVars, cookiesVars>>
LoginFrame ==
    UNCHANGED <<rlVars, orchVars, qidVars, searchVars, resolveVars,
                profileVars, browserVars, authVars, peopleVars, scraperVars,
                cleanVars, sessVars, cookiesVars>>
AuthFrame ==
    UNCHANGED <<rlVars, orchVars, qidVars, searchVars, resolveVars,
                profileVars, browserVars, loginVars, peopleVars, scraperVars,
                cleanVars, sessVars, cookiesVars>>
ProfileFrame ==
    UNCHANGED <<rlVars, orchVars, qidVars, searchVars, resolveVars,
                browserVars, loginVars, authVars, peopleVars, scraperVars,
                cleanVars, sessVars, cookiesVars>>

PeopleFrame ==
    UNCHANGED <<rlVars, orchVars, qidVars, searchVars, resolveVars,
                profileVars, browserVars, loginVars, authVars, scraperVars,
                cleanVars, sessVars, cookiesVars>>

ScraperFrame ==
    UNCHANGED <<rlVars, orchVars, qidVars, searchVars, resolveVars,
                profileVars, browserVars, loginVars, authVars, peopleVars,
                cleanVars, sessVars, cookiesVars>>

CleanFrame ==
    UNCHANGED <<rlVars, orchVars, qidVars, searchVars, resolveVars,
                profileVars, browserVars, loginVars, authVars, peopleVars,
                scraperVars, sessVars, cookiesVars>>

SessFrame ==
    UNCHANGED <<rlVars, orchVars, qidVars, searchVars, resolveVars,
                profileVars, browserVars, loginVars, authVars, peopleVars,
                scraperVars, cleanVars, cookiesVars>>

CookiesFrame ==
    UNCHANGED <<rlVars, orchVars, qidVars, searchVars, resolveVars,
                profileVars, browserVars, loginVars, authVars, peopleVars,
                scraperVars, cleanVars, sessVars>>

\* Bound: threads using the client at the same time.
NumThreads == 2
Threads == 1..NumThreads

Max(a, b) == IF a >= b THEN a ELSE b
Min(a, b) == IF a <= b THEN a ELSE b

(***************************************************************************)
(*                              RateLimiter                                *)
(* Time is counted in ticks of half a second, so that the 0.5 multipliers  *)
(* and the -0.5 / 1.5 jitter bounds are integers.                          *)
(***************************************************************************)
TicksPerSecond == 2

WINDOW_SIZE_SECONDS == 60 * TicksPerSecond
BURST_DETECTION_WINDOW_SECONDS == 10 * TicksPerSecond
NORMAL_JITTER_MIN == -(TicksPerSecond \div 2)
NORMAL_JITTER_MAX == (3 * TicksPerSecond) \div 2
\* x * FIRST_REQUEST_DELAY_MULTIPLIER and x * BURST_JITTER_MULTIPLIER (both 0.5)
FIRST_REQUEST_DELAY(x) == x \div 2
BURST_JITTER(x) == x \div 2

\* The configuration Client.__init__ builds its RateLimiter with.
min_delay_seconds == 3 * TicksPerSecond
max_delay_seconds == 8 * TicksPerSecond
burst_size == 3

\* Other configurations (min_delay, max_delay) a RateLimiter can be built
\* with, 0 <= min_delay <= max_delay.
DelayConfigs ==
    {<<min_delay_seconds, max_delay_seconds>>, <<0, 0>>, <<0, TicksPerSecond>>}

NoTime == -1
NoOwner == 0

\* Bounds of the RateLimiter model.
MaxRPM == 2
MaxWaits == 3

\* random.uniform(a, b): the two ends of the interval stand for the draw.
Uniform(a, b) == {a, b}

\* How long the caller stays away between two wait() calls, and by how much
\* time.sleep() oversleeps (it sleeps at least the delay asked for).
IdleGaps == {0, TicksPerSecond, WINDOW_SIZE_SECONDS + 1}
Oversleep == {0, 1}

RECURSIVE _cleanup(_, _)
_cleanup(q, now) ==
    IF q # <<>> /\ now - Head(q) > WINDOW_SIZE_SECONDS
    THEN _cleanup(Tail(q), now)
    ELSE q

_count_recent(q, now, window) ==
    Cardinality({i \in 1..Len(q) : now - q[i] < window})

\* The set of values _calculate_delay can return (one per random draw).
_calculate_delay_NoFloor(q, last, now) ==
    IF last = NoTime
    THEN Uniform(FIRST_REQUEST_DELAY(min_delay), min_delay)
    ELSE LET recent == _count_recent(q, now, BURST_DETECTION_WINDOW_SECONDS)
         IN  IF recent >= burst_size
             THEN {max_delay + jitter :
                       jitter \in Uniform(0, BURST_JITTER(max_delay))}
             ELSE {base + jitter :
                       base \in Uniform(min_delay, max_delay),
                       jitter \in Uniform(NORMAL_JITTER_MIN, NORMAL_JITTER_MAX)}
_calculate_delay(q, last, now) ==
    IF last = NoTime
    THEN Uniform(FIRST_REQUEST_DELAY(min_delay), min_delay)
    ELSE LET since_last == now - last
             recent == _count_recent(q, now, BURST_DETECTION_WINDOW_SECONDS)
             needed == Max(0, min_delay - since_last)
         IN  IF recent >= burst_size
             THEN {Max(needed, max_delay + jitter) :
                       jitter \in Uniform(0, BURST_JITTER(max_delay))}
             ELSE {Max(needed, base + jitter) :
                       base \in Uniform(min_delay, max_delay),
                       jitter \in Uniform(NORMAL_JITTER_MIN, NORMAL_JITTER_MAX)}

_enforce_rate_limit(q, k, now, base) ==
    IF Len(q) >= k
    THEN LET oldest == q[1]
             wait == WINDOW_SIZE_SECONDS - (now - oldest)
         IN  IF wait > 0 THEN Max(base, wait) ELSE base
    ELSE base

\* wait(): the whole body runs under self.lock, so it is one step.
RLWait ==
    /\ waits < MaxWaits
    /\ \E gap \in IdleGaps, over \in Oversleep :
         LET now == clock + gap
             q == _cleanup(request_times, now)
         IN  \E base \in _calculate_delay(q, last_request_time, now) :
               LET delay == _enforce_rate_limit(q, rpm, now, base)
                   actual == now + (IF delay > 0 THEN delay + over ELSE 0)
               IN  /\ request_times' = Append(q, actual)
                   /\ last_request_time' = actual
                   /\ lastDelay' = delay
                   /\ clock' = actual
                   /\ recorded' = Append(recorded, actual)
                   /\ rlog' = Append(rlog, [op |-> "wait", delay |-> delay])
    /\ waits' = waits + 1
    /\ UNCHANGED <<rpm, min_delay, max_delay, lock, lpc, ldelay>>
    /\ RLFrame

\* reset(): both assignments run under self.lock.
RLReset_KeepsMarker ==
    /\ request_times' = <<>>
    /\ UNCHANGED last_request_time
RLReset_Clears ==
    /\ request_times' = <<>>
    /\ last_request_time' = NoTime

\* A behaviour holds one reset(), after any number of wait() calls.
RLReset ==
    /\ \A i \in 1..Len(rlog) : rlog[i].op # "reset"
    /\ RLReset_Clears
    /\ rlog' = Append(rlog, [op |-> "reset", delay |-> 0])
    /\ UNCHANGED <<clock, rpm, min_delay, max_delay, lastDelay, waits, recorded,
                   lock, lpc, ldelay>>
    /\ RLFrame

\* The fields after __init__, apart from the configuration.
RLFresh ==
    /\ clock = 0
    /\ request_times = <<>>
    /\ last_request_time = NoTime
    /\ lastDelay = 0
    /\ waits = 0
    /\ recorded = <<>>
    /\ rlog = <<>>
    /\ lock = NoOwner
    /\ lpc = [t \in Threads |-> "idle"]
    /\ ldelay = [t \in Threads |-> 0]

\* The limiter of a Client, for small requests_per_minute.
RLInit ==
    /\ rpm \in 1..MaxRPM
    /\ min_delay = min_delay_seconds
    /\ max_delay = max_delay_seconds
    /\ RLFresh

\* A limiter of any of the configurations.
RLConfigInit ==
    /\ rpm \in 1..MaxRPM
    /\ \E cfg \in DelayConfigs : min_delay = cfg[1] /\ max_delay = cfg[2]
    /\ RLFresh

RLIdle ==
    /\ rpm = 1
    /\ min_delay = min_delay_seconds
    /\ max_delay = max_delay_seconds
    /\ RLFresh

RLNext == RLWait

\* ---- wait() and reset() called by several threads ----
\* "with self.lock:" is entered when no thread holds the lock.
LockFree_Ignored == TRUE
LockFree == lock = NoOwner

\* wait(), lines 51-58: the lock is taken, the queue cleaned and the delay
\* computed; the thread then sleeps with the lock held.
LWaitEnter(t) ==
    /\ lpc[t] = "idle"
    /\ waits < MaxWaits
    /\ LockFree
    /\ lock' = t
    /\ \E gap \in IdleGaps :
         LET now == clock + gap
             q == _cleanup(request_times, now)
         IN  /\ \E base \in _calculate_delay(q, last_request_time, now) :
                  ldelay' = [ldelay EXCEPT ![t] =
                                 _enforce_rate_limit(q, rpm, now, base)]
             /\ request_times' = q
             /\ clock' = now
    /\ lpc' = [lpc EXCEPT ![t] = "sleeping"]
    /\ waits' = waits + 1
    /\ UNCHANGED <<rpm, min_delay, max_delay, last_request_time, lastDelay,
                   recorded, rlog>>
    /\ RLFrame

\* wait(), lines 58-62: the sleep ends, the timestamp is recorded and the
\* lock released.
LWaitRecord(t) ==
    /\ lpc[t] = "sleeping"
    /\ \E over \in Oversleep :
         LET actual == clock + (IF ldelay[t] > 0 THEN ldelay[t] + over ELSE 0)
         IN  /\ request_times' = Append(request_times, actual)
             /\ last_request_time' = actual
             /\ clock' = actual
             /\ recorded' = Append(recorded, actual)
    /\ lastDelay' = ldelay[t]
    /\ rlog' = Append(rlog, [op |-> "wait", delay |-> ldelay[t]])
    /\ lock' = NoOwner
    /\ lpc' = [lpc EXCEPT ![t] = "idle"]
    /\ ldelay' = [ldelay EXCEPT ![t] = 0]
    /\ UNCHANGED <<rpm, min_delay, max_delay, waits>>
    /\ RLFrame

\* reset(), line 102; a behaviour holds one reset().
LResetEnter(t) ==
    /\ lpc[t] = "idle"
    /\ \A i \in 1..Len(rlog) : rlog[i].op # "reset"
    /\ \A u \in Threads : lpc[u] \in {"idle", "sleeping"}
    /\ LockFree
    /\ lock' = t
    /\ lpc' = [lpc EXCEPT ![t] = "resetting"]
    /\ UNCHANGED <<clock, rpm, min_delay, max_delay, request_times,
                   last_request_time, lastDelay, waits, recorded, rlog, ldelay>>
    /\ RLFrame

\* reset(), line 103.
LResetQueue(t) ==
    /\ lpc[t] = "resetting"
    /\ request_times' = <<>>
    /\ lpc' = [lpc EXCEPT ![t] = "queue_cleared"]
    /\ UNCHANGED <<clock, rpm, min_delay, max_delay, last_request_time,
                   lastDelay, waits, recorded, rlog, lock, ldelay>>
    /\ RLFrame

\* reset(), line 104, and the release of the lock.
LResetMarker(t) ==
    /\ lpc[t] = "queue_cleared"
    /\ last_request_time' = NoTime
    /\ rlog' = Append(rlog, [op |-> "reset", delay |-> 0])
    /\ lock' = NoOwner
    /\ lpc' = [lpc EXCEPT ![t] = "idle"]
    /\ UNCHANGED <<clock, rpm, min_delay, max_delay, request_times, lastDelay,
                   waits, recorded, ldelay>>
    /\ RLFrame

RLConcNext ==
    \/ \E t \in Threads : LWaitEnter(t)
    \/ \E t \in Threads : LWaitRecord(t)
    \/ \E t \in Threads : LResetEnter(t)
    \/ \E t \in Threads : LResetQueue(t)
    \/ \E t \in Threads : LResetMarker(t)

RLResetNext ==
    \/ RLWait
    \/ RLReset

(***************************************************************************)
(*                 search_linkedin and ensure_cookies                      *)
(* A cookie state is named by a number: StoredCookies is the state saved   *)
(* in the credential, 1, 2, ... are the states the logins of this          *)
(* invocation created, in order; NoCookies is None (or an empty jar).      *)
(***************************************************************************)
NoCookies == -1
StoredCookies == 0

\* data.get("cookies"): absent, a storage dict with cookies, a storage dict
\* whose cookie list is empty, or a bare list of cookies.
CookieShapes == {"none", "dict", "emptydict", "list"}
Usernames == {"", " ", "user"}
Passwords == {"", "pw"}
Credentials ==
    [decrypts : BOOLEAN, cookies : CookieShapes,
     username : Usernames, password : Passwords]

\* What a headless login (create_linkedin_cookies) can end in: a storage
\* state with cookies, a storage state with an empty cookie list, or an
\* error: the NetworkError of BrowserManager.start, or the
\* AuthenticationError of login_with_credentials, which is also what a
\* RateLimitError raised by _detect_rate_limit during the login leaves it
\* as ("RateLimitError in login").
LoginErrors == {"AuthenticationError", "RateLimitError in login", "NetworkError"}
LoginOutcomes == {"ok", "ok_empty"} \cup LoginErrors
\* What search_linkedin_sync can end in.
ApiErrors == {"UnauthorizedError", "LinkedInRequestError", "KeyError"}
ApiOutcomes == {"ok"} \cup ApiErrors
\* What _search_linkedin_scraper_in_thread can end in.
ScraperErrors == {"RateLimitError", "NetworkError", "AuthenticationError"}
ScraperOutcomes == {"ok"} \cup ScraperErrors

Truthy(s) == s # ""
Strip(s) == IF s = " " THEN "" ELSE s

\* The number of cookie states the logins of this invocation created so far.
Created ==
    Cardinality({i \in 1..Len(olog) :
        olog[i].op \in {"login", "refresh_login"} /\ olog[i].res \in {"ok", "ok_empty"}})

Event(op, res) == [op |-> op, res |-> res]

Raise(kind) ==
    /\ opc' = "raised"
    /\ oresult' = [kind |-> kind, candidates |-> "none", cookies_to_persist |-> NoCookies]

Return(via, persist) ==
    /\ opc' = "returned"
    /\ oresult' = [kind |-> "ok", candidates |-> via, cookies_to_persist |-> persist]

\* resolve_cookies_from_credential: does the credential yield a cookie jar?
HasStoredCookies(c) == c.cookies \in {"dict", "list"}

\* "username and password" of ensure_cookies: is there a pair to log in with?
NeedsLogin_EitherField(c) == Truthy(c.username) \/ Truthy(c.password)
NeedsLogin(c) == Truthy(c.username) /\ Truthy(c.password)

\* ensure_cookies(cred_encrypted), the first await of search_linkedin.
OEnsureCookies ==
    /\ opc = "start"
    /\ IF ~cred.decrypts
       THEN /\ Raise("ValueError: invalid credentials")
            /\ UNCHANGED <<cookies_jar, cookies_storage, cookies_to_persist, olog>>
       ELSE IF HasStoredCookies(cred)
       THEN /\ cookies_jar' = StoredCookies
            /\ cookies_storage' = StoredCookies
            /\ cookies_to_persist' = NoCookies
            /\ opc' = "search1"
            /\ UNCHANGED <<oresult, olog>>
       ELSE IF NeedsLogin(cred)
       THEN \E out \in LoginOutcomes :
              /\ olog' = Append(olog, Event("login", out))
              /\ IF out \in LoginErrors
                 THEN /\ Raise("ValueError: login failed")
                      /\ UNCHANGED <<cookies_jar, cookies_storage, cookies_to_persist>>
                 ELSE /\ cookies_storage' = Created + 1
                      /\ cookies_to_persist' = Created + 1
                      /\ IF out = "ok"
                         THEN /\ cookies_jar' = Created + 1
                              /\ opc' = "search1"
                              /\ UNCHANGED oresult
                         ELSE \* the jar built from an empty cookie list is falsy
                              /\ cookies_jar' = NoCookies
                              /\ Raise("ValueError: not connected")
       ELSE /\ Raise("ValueError: not connected")
            /\ UNCHANGED <<cookies_jar, cookies_storage, cookies_to_persist, olog>>
    /\ UNCHANGED <<cred, new_storage, api_err>>
    /\ OrchFrame

\* The first structured search (search_linkedin_sync in the executor).
OSearch1 ==
    /\ opc = "search1"
    /\ \E out \in ApiOutcomes :
         /\ olog' = Append(olog, Event("search1", out))
         /\ IF out = "ok"
            THEN /\ Return("api", cookies_to_persist)
                 /\ UNCHANGED api_err
            ELSE /\ opc' = "refresh"
                 /\ api_err' = out
                 /\ UNCHANGED oresult
    /\ UNCHANGED <<cred, cookies_jar, cookies_storage, cookies_to_persist, new_storage>>
    /\ OrchFrame

\* Can the refresh tier log in again?  (username is stripped here.)
CanRefresh(c) == Truthy(Strip(c.username)) /\ Truthy(c.password)

\* The refresh: decrypt again and, with a username and a password, log in.
ORefresh ==
    /\ opc = "refresh"
    /\ IF CanRefresh(cred)
       THEN \E out \in LoginOutcomes :
              /\ olog' = Append(olog, Event("refresh_login", out))
              /\ IF out \in LoginErrors
                 THEN /\ opc' = "scraper"
                      /\ UNCHANGED new_storage
                 ELSE /\ new_storage' = Created + 1
                      /\ opc' = "search2"
       ELSE /\ opc' = "scraper"
            /\ UNCHANGED <<new_storage, olog>>
    /\ UNCHANGED <<cred, cookies_jar, cookies_storage, cookies_to_persist, api_err, oresult>>
    /\ OrchFrame

\* OSearch2 returning the cookies_to_persist of ensure_cookies.
OSearch2_StalePersist ==
    /\ opc = "search2"
    /\ \E out \in ApiOutcomes :
         /\ olog' = Append(olog, Event("search2", out))
         /\ IF out = "ok"
            THEN Return("api", cookies_to_persist)
            ELSE /\ opc' = "scraper"
                 /\ UNCHANGED oresult
    /\ UNCHANGED <<cred, cookies_jar, cookies_storage, cookies_to_persist,
                   new_storage, api_err>>
    /\ OrchFrame

\* OSearch2 going back to the refresh when the retry fails.
OSearch2_RetryLoop ==
    /\ opc = "search2"
    /\ \E out \in ApiOutcomes :
         /\ olog' = Append(olog, Event("search2", out))
         /\ IF out = "ok"
            THEN Return("api", new_storage)
            ELSE /\ opc' = "refresh"
                 /\ UNCHANGED oresult
    /\ UNCHANGED <<cred, cookies_jar, cookies_storage, cookies_to_persist,
                   new_storage, api_err>>
    /\ OrchFrame

\* The retry of the structured search with the refreshed cookies.
OSearch2 ==
    /\ opc = "search2"
    /\ \E out \in ApiOutcomes :
         /\ olog' = Append(olog, Event("search2", out))
         /\ IF out = "ok"
            THEN Return("api", new_storage)
            ELSE /\ opc' = "scraper"
                 /\ UNCHANGED oresult
    /\ UNCHANGED <<cred, cookies_jar, cookies_storage, cookies_to_persist,
                   new_storage, api_err>>
    /\ OrchFrame

\* The scraper fallback and the final raise.
OScraper ==
    /\ opc = "scraper"
    /\ LET storage_for_scraper ==
               IF new_storage # NoCookies THEN new_storage ELSE cookies_storage
       IN  IF storage_for_scraper # NoCookies
           THEN \E out \in ScraperOutcomes :
                  /\ olog' = Append(olog, Event("scraper", out))
                  /\ IF out = "ok"
                     THEN Return("scraper", new_storage)
                     ELSE Raise("ValueError: search failed")
           ELSE /\ Raise("ValueError: search failed")
                /\ UNCHANGED olog
    /\ UNCHANGED <<cred, cookies_jar, cookies_storage, cookies_to_persist,
                   new_storage, api_err>>
    /\ OrchFrame

OrchInit ==
    /\ cred \in Credentials
    /\ opc = "start"
    /\ cookies_jar = NoCookies
    /\ cookies_storage = NoCookies
    /\ cookies_to_persist = NoCookies
    /\ new_storage = NoCookies
    /\ api_err = "none"
    /\ oresult = [kind |-> "none", candidates |-> "none", cookies_to_persist |-> NoCookies]
    /\ olog = <<>>

OrchIdle ==
    /\ cred = [decrypts |-> TRUE, cookies |-> "dict", username |-> "", password |-> ""]
    /\ opc = "start"
    /\ cookies_jar = NoCookies
    /\ cookies_storage = NoCookies
    /\ cookies_to_persist = NoCookies
    /\ new_storage = NoCookies
    /\ api_err = "none"
    /\ oresult = [kind |-> "none", candidates |-> "none", cookies_to_persist |-> NoCookies]
    /\ olog = <<>>

OrchNext ==
    \/ OEnsureCookies
    \/ OSearch1
    \/ ORefresh
    \/ OSearch2
    \/ OScraper

(***************************************************************************)
(*        Linkedin._fetch_search_with_fallback (query-id rotation)         *)
(* Every thread runs its own Linkedin instance; _active_search_query_id is *)
(* a class attribute, shared by all of them.  Each read or write of it and *)
(* each HTTP request is one step of the thread.                            *)
(***************************************************************************)
SEARCH_QUERY_IDS == <<"b0928897", "5e03c5de">>
QueryIds == {SEARCH_QUERY_IDS[i] : i \in 1..Len(SEARCH_QUERY_IDS)}
NoQueryId == "none"

\* The HTTP statuses the backend answers a search request with.
Statuses == {200, 401, 403, 500}

\* Bounds: calls each thread makes, and changes of the backend's behaviour.
MaxCalls == 2
MaxBackendChanges == 2
\* The thread of the sequential specifications.
Searcher == 1

NoOutcome == [kind |-> "none", status |-> 0]
Request(qid, status) == [qid |-> qid, status |-> status]

\* _fetch: what a response with this status makes it raise.
FetchError(status) ==
    IF status = 401
    THEN [kind |-> "UnauthorizedError", status |-> 401]
    ELSE [kind |-> "LinkedInRequestError", status |-> status]

\* "except LinkedInRequestError as e: if e.status_code != 500: raise":
\* does the handler swallow the error and go on to the next query id?
TriesNextId_AnyRequestError(status) == status \notin {200, 401}
TriesNextId(status) == status = 500

\* Entry: the URI is built from the active query id (a read).
FBegin(t) ==
    /\ fpc' = [fpc EXCEPT ![t] = "first"]
    /\ fqid' = [fqid EXCEPT ![t] = active]
    /\ fstart' = [fstart EXCEPT ![t] = active]
    /\ fidx' = [fidx EXCEPT ![t] = 0]
    /\ freqs' = [freqs EXCEPT ![t] = <<>>]
    /\ fout' = [fout EXCEPT ![t] = NoOutcome]
    /\ frot' = [frot EXCEPT ![t] = NoQueryId]

\* A call of _fetch_search_with_fallback on its own.
FStart(t) ==
    /\ fpc[t] = "idle"
    /\ spc = "idle"
    /\ calls[t] < MaxCalls
    /\ calls' = [calls EXCEPT ![t] = @ + 1]
    /\ FBegin(t)
    /\ UNCHANGED <<active, backend, backendChanges, lastGood>>
    /\ UNCHANGED searchVars
    /\ QidFrame

\* The request for the id read at entry.
FFirst(t) ==
    /\ fpc[t] = "first"
    /\ LET status == backend[fqid[t]]
       IN  /\ freqs' = [freqs EXCEPT ![t] = Append(@, Request(fqid[t], status))]
           /\ IF status = 200
              THEN /\ fpc' = [fpc EXCEPT ![t] = "done"]
                   /\ fout' = [fout EXCEPT ![t] = [kind |-> "ok", status |-> 200]]
                   /\ lastGood' = fqid[t]
                   /\ UNCHANGED fidx
              ELSE IF TriesNextId(status)
              THEN /\ fpc' = [fpc EXCEPT ![t] = "loop"]
                   /\ fidx' = [fidx EXCEPT ![t] = 1]
                   /\ UNCHANGED <<fout, lastGood>>
              ELSE /\ fpc' = [fpc EXCEPT ![t] = "done"]
                   /\ fout' = [fout EXCEPT ![t] = FetchError(status)]
                   /\ UNCHANGED <<fidx, lastGood>>
    /\ UNCHANGED <<active, backend, backendChanges, calls, fqid, fstart, frot>>
    /\ UNCHANGED searchVars
    /\ QidFrame

\* One turn of "for qid in self._SEARCH_QUERY_IDS": the active id is read
\* again and compared with qid.
FLoop(t) ==
    /\ fpc[t] = "loop"
    /\ IF fidx[t] > Len(SEARCH_QUERY_IDS)
       THEN /\ fpc' = [fpc EXCEPT ![t] = "done"]
            /\ fout' = [fout EXCEPT ![t] =
                          [kind |-> "LinkedInRequestError: all ids returned 500",
                           status |-> 500]]
            /\ UNCHANGED <<fidx, fqid>>
       ELSE IF SEARCH_QUERY_IDS[fidx[t]] = active
       THEN /\ fidx' = [fidx EXCEPT ![t] = @ + 1]
            /\ UNCHANGED <<fpc, fout, fqid>>
       ELSE /\ fqid' = [fqid EXCEPT ![t] = SEARCH_QUERY_IDS[fidx[t]]]
            /\ fpc' = [fpc EXCEPT ![t] = "fallback"]
            /\ UNCHANGED <<fidx, fout>>
    /\ UNCHANGED <<active, backend, backendChanges, calls, fstart, freqs, frot,
                   lastGood>>
    /\ UNCHANGED searchVars
    /\ QidFrame

\* The request for a fallback id.
FFallback(t) ==
    /\ fpc[t] = "fallback"
    /\ LET status == backend[fqid[t]]
       IN  /\ freqs' = [freqs EXCEPT ![t] = Append(@, Request(fqid[t], status))]
           /\ IF status = 200
              THEN /\ fpc' = [fpc EXCEPT ![t] = "rotate"]
                   /\ lastGood' = fqid[t]
                   /\ UNCHANGED <<fidx, fout>>
              ELSE IF TriesNextId(status)
              THEN /\ fpc' = [fpc EXCEPT ![t] = "loop"]
                   /\ fidx' = [fidx EXCEPT ![t] = @ + 1]
                   /\ UNCHANGED <<fout, lastGood>>
              ELSE /\ fpc' = [fpc EXCEPT ![t] = "done"]
                   /\ fout' = [fout EXCEPT ![t] = FetchError(status)]
                   /\ UNCHANGED <<fidx, lastGood>>
    /\ UNCHANGED <<active, backend, backendChanges, calls, fqid, fstart, frot>>
    /\ UNCHANGED searchVars
    /\ QidFrame

\* The query id a successful fallback request makes the active one.
RotatedId_KeepsActive(t) == active
RotatedId(t) == fqid[t]

\* "Linkedin._active_search_query_id = qid; return data".
FRotate(t) ==
    /\ fpc[t] = "rotate"
    /\ active' = RotatedId(t)
    /\ frot' = [frot EXCEPT ![t] = RotatedId(t)]
    /\ fpc' = [fpc EXCEPT ![t] = "done"]
    /\ fout' = [fout EXCEPT ![t] = [kind |-> "ok", status |-> 200]]
    /\ UNCHANGED <<backend, backendChanges, calls, fqid, fstart, fidx, freqs,
                   lastGood>>
    /\ UNCHANGED searchVars
    /\ QidFrame

\* The caller takes the result of a call made on its own.
FFinish(t) ==
    /\ fpc[t] = "done"
    /\ spc = "idle"
    /\ fpc' = [fpc EXCEPT ![t] = "idle"]
    /\ UNCHANGED <<active, backend, backendChanges, calls, fqid, fstart, fidx,
                   freqs, fout, frot, lastGood>>
    /\ UNCHANGED searchVars
    /\ QidFrame

\* LinkedIn changes how it answers one query id.
BackendChange ==
    /\ backendChanges < MaxBackendChanges
    /\ backendChanges' = backendChanges + 1
    /\ \E q \in QueryIds, s \in Statuses :
         /\ backend[q] # s
         /\ backend' = [backend EXCEPT ![q] = s]
    /\ UNCHANGED <<active, calls, fpc, fqid, fstart, fidx, freqs, fout, frot,
                   lastGood>>
    /\ UNCHANGED searchVars
    /\ QidFrame

QidInit ==
    /\ active = SEARCH_QUERY_IDS[1]
    /\ backend \in [QueryIds -> Statuses]
    /\ backendChanges = 0
    /\ calls = [t \in Threads |-> 0]
    /\ fpc = [t \in Threads |-> "idle"]
    /\ fqid = [t \in Threads |-> NoQueryId]
    /\ fstart = [t \in Threads |-> NoQueryId]
    /\ fidx = [t \in Threads |-> 0]
    /\ freqs = [t \in Threads |-> <<>>]
    /\ fout = [t \in Threads |-> NoOutcome]
    /\ frot = [t \in Threads |-> NoQueryId]
    /\ lastGood = NoQueryId

QidIdle ==
    /\ active = SEARCH_QUERY_IDS[1]
    /\ backend = [q \in QueryIds |-> 200]
    /\ backendChanges = 0
    /\ calls = [t \in Threads |-> 0]
    /\ fpc = [t \in Threads |-> "idle"]
    /\ fqid = [t \in Threads |-> NoQueryId]
    /\ fstart = [t \in Threads |-> NoQueryId]
    /\ fidx = [t \in Threads |-> 0]
    /\ freqs = [t \in Threads |-> <<>>]
    /\ fout = [t \in Threads |-> NoOutcome]
    /\ frot = [t \in Threads |-> NoQueryId]
    /\ lastGood = NoQueryId

\* Calls made one after the other, against a backend that may change.
QidNext ==
    \/ FStart(Searcher)
    \/ FFirst(Searcher)
    \/ FLoop(Searcher)
    \/ FFallback(Searcher)
    \/ FRotate(Searcher)
    \/ FFinish(Searcher)
    \/ BackendChange

\* Calls of several threads interleaved.
QidConcNext ==
    \/ \E t \in Threads : FStart(t)
    \/ \E t \in Threads : FFirst(t)
    \/ \E t \in Threads : FLoop(t)
    \/ \E t \in Threads : FFallback(t)
    \/ \E t \in Threads : FRotate(t)
    \/ \E t \in Threads : FFinish(t)

(***************************************************************************)
(*                     Linkedin._search (pagination)                       *)
(* The search runs on the Searcher thread; every page is fetched by a call *)
(* of _fetch_search_with_fallback.  An element is <<page, position>>.      *)
(***************************************************************************)
_MAX_SEARCH_COUNT == 49
_MAX_REPEATED_REQUESTS == 200

\* limit as _search receives it (-1: no limit), and the numbers of elements
\* a response page can hold; NoClustersPage is a response without clusters.
Limits == {-1, 0, 2, 120}
PageSizes == {0, 1, 50}
NoClustersPage == -1
PageShapes == PageSizes \cup {NoClustersPage}

\* Bound: page requests of one search.
MaxPages == 3

PageLen(page) == IF page = NoClustersPage THEN 0 ELSE page
Elements(p, page) == [j \in 1..PageLen(page) |-> <<p, j>>]

\* "if limit > -1 and limit - len(results) < count: count = limit - len(results)"
NextCount(lim, cnt, n) == IF lim > -1 /\ lim - n < cnt THEN lim - n ELSE cnt

\* The break test at the end of a turn; "error" is the ZeroDivisionError of
\* len(results) / count.
ShouldStop_IgnoresEmptyPage(lim, cnt, n, new) ==
    IF lim > -1 /\ lim <= n THEN "stop"
    ELSE IF cnt = 0 THEN "error"
    ELSE IF cnt > 0 /\ n >= _MAX_REPEATED_REQUESTS * cnt THEN "stop"
    ELSE "continue"
ShouldStop(lim, cnt, n, new) ==
    IF lim > -1 /\ lim <= n THEN "stop"
    ELSE IF cnt = 0 THEN "error"
    ELSE IF cnt > 0 /\ n >= _MAX_REPEATED_REQUESTS * cnt THEN "stop"
    ELSE IF new = 0 THEN "stop"
    ELSE "continue"

\* _search(params, limit) is called.
SBegin ==
    /\ spc = "idle"
    /\ fpc[Searcher] = "idle"
    /\ \E lim \in Limits : limit' = lim
    /\ count' = _MAX_SEARCH_COUNT
    /\ results' = <<>>
    /\ pages' = <<>>
    /\ nreq' = 0
    /\ spc' = "loop"
    /\ UNCHANGED sout
    /\ UNCHANGED qidVars
    /\ SearchFrame

\* Top of the loop: count is adjusted and the page is requested; the model
\* follows a search for at most `most` requests.
SRequestWithin(most) ==
    /\ spc = "loop"
    /\ nreq < most
    /\ count' = NextCount(limit, count, Len(results))
    /\ nreq' = nreq + 1
    /\ spc' = "fetching"
    /\ FBegin(Searcher)
    /\ UNCHANGED <<limit, results, pages, sout>>
    /\ UNCHANGED <<active, backend, backendChanges, calls, lastGood>>
    /\ SearchFrame

\* The fetch returned or raised: the rest of the turn; the page received is
\* one of `shapes`.
SResponseWith(shapes) ==
    /\ spc = "fetching"
    /\ fpc[Searcher] = "done"
    /\ fpc' = [fpc EXCEPT ![Searcher] = "idle"]
    /\ IF fout[Searcher].kind # "ok"
       THEN /\ spc' = "done"
            /\ sout' = fout[Searcher].kind
            /\ UNCHANGED <<results, pages>>
       ELSE \E page \in shapes :
              /\ pages' = Append(pages, page)
              /\ IF page = NoClustersPage
                 THEN /\ spc' = "done"
                      /\ sout' = "ok"
                      /\ UNCHANGED results
                 ELSE LET new_elements == Elements(Len(pages) + 1, page)
                          extended == results \o new_elements
                          verdict == ShouldStop(limit, count, Len(extended),
                                                Len(new_elements))
                      IN  /\ results' = extended
                          /\ spc' = IF verdict = "continue" THEN "loop" ELSE "done"
                          /\ sout' = IF verdict = "continue" THEN sout
                                     ELSE IF verdict = "stop" THEN "ok"
                                     ELSE "ZeroDivisionError"
    /\ UNCHANGED <<limit, count, nreq>>
    /\ UNCHANGED <<active, backend, backendChanges, calls, fqid, fstart, fidx,
                   freqs, fout, frot, lastGood>>
    /\ SearchFrame

SRequest == SRequestWithin(MaxPages)
SResponse == SResponseWith(PageShapes)

\* A backend that answers every request of a search with a non-empty page
\* of one size: a single element, or as many as _MAX_SEARCH_COUNT.
SteadySizes == {1, _MAX_SEARCH_COUNT}
\* Bound: page requests of one search against the steady backend.
MaxSteadyPages == 201

SSteadyRequest == SRequestWithin(MaxSteadyPages)
SSteadyResponse ==
    SResponseWith(IF pages = <<>> THEN SteadySizes ELSE {pages[1]})

SearchInit ==
    /\ spc = "idle"
    /\ limit = -1
    /\ count = _MAX_SEARCH_COUNT
    /\ results = <<>>
    /\ pages = <<>>
    /\ nreq = 0
    /\ sout = "none"

SearchIdle == SearchInit

\* One paginated search, its fetches made by the Searcher thread.
SearchNext ==
    \/ SBegin
    \/ SRequest
    \/ FFirst(Searcher)
    \/ FLoop(Searcher)
    \/ FFallback(Searcher)
    \/ FRotate(Searcher)
    \/ SResponse

\* One paginated search against the steady backend.
SearchSteadyNext ==
    \/ SBegin
    \/ SSteadyRequest
    \/ FFirst(Searcher)
    \/ FLoop(Searcher)
    \/ FFallback(Searcher)
    \/ FRotate(Searcher)
    \/ SSteadyResponse

(***************************************************************************)
(*                  Linkedin._denormalize / _resolve                       *)
(* The graph: data is {"*root": rroot}; entity k of `included`, when       *)
(* present, has its entityUrn (or lacks the key) and may have one marked   *)
(* field, {"*next": next}.  A reference string is the number of the entity *)
(* it names, or MissingRef.                                                *)
(***************************************************************************)
\* Bounds: entities in the response, and the depth of nested _resolve calls
\* the interpreter allows (sys.getrecursionlimit()).
MaxEntities == 2
RecursionLimit == 4

Keys == 1..MaxEntities
MissingRef == 0
NoField == -1
RefStrings == Keys \cup {MissingRef}
Entities ==
    [present : BOOLEAN, urn : BOOLEAN, next : RefStrings \cup {NoField}]

\* lookup = {item["entityUrn"]: item for item in included if "entityUrn" in item}
Lookup == {k \in Keys : included[k].present /\ included[k].urn}

Resolved(k) == [ref |-> k, resolved |-> TRUE]
Unresolved(r) == [ref |-> r, resolved |-> FALSE]

\* _denormalize(raw): without included entities data is returned as it is.
RDenormalize ==
    /\ rpc = "idle"
    /\ IF \A k \in Keys : ~included[k].present
       THEN /\ rpc' = "returned"
            /\ rvalue' = <<Unresolved(rroot)>>
            /\ UNCHANGED rref
       ELSE /\ rpc' = "resolving"
            /\ rref' = rroot
            /\ UNCHANGED rvalue
    /\ UNCHANGED <<included, rroot, rdepth>>
    /\ ResolveFrame

\* "if is_ref and obj in lookup": is the reference followed?
Follows(r) == r \in Lookup

\* _resolve(obj, lookup, True) for the reference string rref, and, when it
\* is followed, _resolve of the entity's dict up to its marked field.
RResolve ==
    /\ rpc = "resolving"
    /\ IF Follows(rref)
       THEN IF rdepth >= RecursionLimit
            THEN /\ rpc' = "raised"
                 /\ UNCHANGED <<rvalue, rref, rdepth>>
            ELSE /\ rvalue' = Append(rvalue, Resolved(rref))
                 /\ rdepth' = rdepth + 1
                 /\ IF included[rref].next = NoField
                    THEN /\ rpc' = "returned"
                         /\ UNCHANGED rref
                    ELSE /\ rref' = included[rref].next
                         /\ UNCHANGED rpc
       ELSE /\ rvalue' = Append(rvalue, Unresolved(rref))
            /\ rpc' = "returned"
            /\ UNCHANGED <<rref, rdepth>>
    /\ UNCHANGED <<included, rroot>>
    /\ ResolveFrame

ResolveInit ==
    /\ included \in [Keys -> Entities]
    /\ rroot \in RefStrings
    /\ rpc = "idle"
    /\ rref = MissingRef
    /\ rdepth = 0
    /\ rvalue = <<>>

ResolveIdle ==
    /\ included = [k \in Keys |-> [present |-> FALSE, urn |-> FALSE, next |-> NoField]]
    /\ rroot = MissingRef
    /\ rpc = "idle"
    /\ rref = MissingRef
    /\ rdepth = 0
    /\ rvalue = <<>>

ResolveNext ==
    \/ RDenormalize
    \/ RResolve

(***************************************************************************)
(*                         Linkedin.get_profile                            *)
(* plog holds, in order, a "wait" event for a RateLimiter.wait() call and  *)
(* a "request" event, with what came of it, for an HTTP request sent to    *)
(* LinkedIn.                                                               *)
(***************************************************************************)
NoId == "none"
PublicIds == {NoId, "john-doe"}
UrnIds == {NoId, "ACoAAB"}
\* decorations of _fetch_profile_from_dash_api
NumDecorations == 3

PEvent(ev, res) == [ev |-> ev, res |-> res]
\* _fetch(uri): wait() and then session.get.
Fetched(log, res) == log \o <<PEvent("wait", "none"), PEvent("request", res)>>
\* self.client.session.get(url), called directly.
Got(log, res) == log \o <<PEvent("request", res)>>

\* What the GraphQL lookup of the URN ends in: an fsd_profile element, no
\* such element, the UnauthorizedError _fetch raises on HTTP 401, or another
\* exception (a failed request, a body that is not JSON).
GraphQLOutcomes == {"urn", "no_elements", "UnauthorizedError", "exception"}
\* What the profile page ends in: a status other than 200, a page with the
\* URN (JSON-LD or regex), a page without it, or an exception.
HtmlOutcomes == {"not_200", "urn", "no_urn", "exception"}
\* What one decoration ends in: a profile, an empty body, a body that
\* denormalizes to nothing, the UnauthorizedError _fetch raises on HTTP 401,
\* or another exception; "except Exception" catches both kinds.
DashOutcomes == {"profile", "empty_raw", "no_profile", "UnauthorizedError",
                 "exception"}

\* get_profile(public_id, urn_id), lines 374-382.
PBegin ==
    /\ ppc = "idle"
    /\ \E p \in PublicIds, u \in UrnIds :
         /\ public_id' = p
         /\ urn_id' = u
         /\ IF p # NoId /\ u = NoId
            THEN ppc' = "graphql" /\ UNCHANGED pout
            ELSE IF u = NoId
                 THEN ppc' = "done" /\ pout' = "empty"
                 ELSE ppc' = "dash" /\ UNCHANGED pout
    /\ UNCHANGED <<dec, plog>>
    /\ ProfileFrame

\* _extract_urn_from_public_id, the GraphQL lookup (lines 489-503).
PGraphQL ==
    /\ ppc = "graphql"
    /\ \E o \in GraphQLOutcomes :
         /\ plog' = Fetched(plog, o)
         /\ IF o = "urn"
            THEN /\ urn_id' = "ACoAAB"
                 /\ ppc' = "dash"
            ELSE /\ ppc' = "html"
                 /\ UNCHANGED urn_id
    /\ UNCHANGED <<public_id, dec, pout>>
    /\ ProfileFrame

\* _extract_urn_from_public_id, the HTML fallback (lines 506-532), and the
\* test of its result in get_profile (lines 376-377).
PHtml ==
    /\ ppc = "html"
    /\ \E o \in HtmlOutcomes :
         /\ plog' = Got(plog, o)
         /\ IF o = "urn"
            THEN /\ urn_id' = "ACoAAB"
                 /\ ppc' = "dash"
                 /\ UNCHANGED pout
            ELSE /\ ppc' = "done"
                 /\ pout' = "empty"
                 /\ UNCHANGED urn_id
    /\ UNCHANGED <<public_id, dec>>
    /\ ProfileFrame

\* _fetch_profile_from_dash_api: one turn of the loop over the decorations,
\* and what get_profile does with the result.
PDash ==
    /\ ppc = "dash"
    /\ \E o \in DashOutcomes :
         /\ plog' = Fetched(plog, o)
         /\ IF o = "profile"
            THEN ppc' = "done" /\ pout' = "profile" /\ UNCHANGED dec
            ELSE IF o = "no_profile" \/ dec = NumDecorations
                 THEN ppc' = "done" /\ pout' = "empty" /\ UNCHANGED dec
                 ELSE dec' = dec + 1 /\ UNCHANGED <<ppc, pout>>
    /\ UNCHANGED <<public_id, urn_id>>
    /\ ProfileFrame

ProfileInit ==
    /\ ppc = "idle"
    /\ public_id = NoId
    /\ urn_id = NoId
    /\ dec = 1
    /\ plog = <<>>
    /\ pout = "none"

ProfileIdle == ProfileInit

ProfileNext ==
    \/ PBegin
    \/ PGraphQL
    \/ PHtml
    \/ PDash

(***************************************************************************)
(*                            BrowserManager                               *)
(* The resources are the Playwright engine (_playwright), the browser, the *)
(* context and the page.  What a step of start() or an attempt to close a  *)
(* resource raises is an Exception.                                        *)
(***************************************************************************)
\* The order start() creates the resources in, and the order close() goes
\* through them.
StartOrder == <<"playwright", "browser", "context", "page">>
CloseOrder == <<"page", "context", "browser", "playwright">>
Kinds == {"playwright", "browser", "context", "page"}

\* Bounds: start() and close() calls of one BrowserManager.
MaxStarts == 2
MaxCloses == 2

NoHandles == [k \in Kinds |-> FALSE]
Attempt(k, ok) == [kind |-> k, ok |-> ok]
BOp(op, raised) == [op |-> op, raised |-> raised]
Calls(op) == {i \in 1..Len(bops) : bops[i].op = op}

\* close(), lines 83-93: the attempts made for the handles h when closing
\* the resources of `fails` raises.
RECURSIVE CloseAttempts_StopAtFailure(_, _, _)
CloseAttempts_StopAtFailure(h, fails, i) ==
    IF i > Len(CloseOrder) THEN <<>>
    ELSE IF ~h[CloseOrder[i]] THEN CloseAttempts_StopAtFailure(h, fails, i + 1)
    ELSE IF CloseOrder[i] \in fails THEN <<Attempt(CloseOrder[i], FALSE)>>
    ELSE <<Attempt(CloseOrder[i], TRUE)>>
             \o CloseAttempts_StopAtFailure(h, fails, i + 1)
RECURSIVE CloseAttempts(_, _, _)
CloseAttempts(h, fails, i) ==
    IF i > Len(CloseOrder) THEN <<>>
    ELSE IF ~h[CloseOrder[i]] THEN CloseAttempts(h, fails, i + 1)
    ELSE <<Attempt(CloseOrder[i], CloseOrder[i] \notin fails)>>
             \o CloseAttempts(h, fails, i + 1)

\* The resources after the attempts `as`.
AfterClose(res, as) ==
    [k \in Kinds |->
        IF \E i \in 1..Len(as) : as[i].kind = k /\ as[i].ok
        THEN "closed" ELSE res[k]]

\* The body of close() for the handles h.
DoClose(h, res, fails) ==
    /\ held' = h
    /\ attempts' = CloseAttempts(h, fails, 1)
    /\ resources' = AfterClose(res, attempts')
    /\ handles' = NoHandles

\* "except Exception as e: await self.close()" of start().
StartCleanup_Skipped(h, res, fails) ==
    /\ held' = held
    /\ attempts' = attempts
    /\ resources' = res
    /\ handles' = NoHandles
StartCleanup(h, res, fails) == DoClose(h, res, fails)

\* start(): the first `n` steps succeed; step n + 1, if there is one,
\* raises, and close() runs before NetworkError is raised.
BStart ==
    /\ Cardinality(Calls("start")) < MaxStarts
    /\ handles = NoHandles
    /\ \E n \in 0..Len(StartOrder) :
         LET made == {StartOrder[i] : i \in 1..n}
             h == [k \in Kinds |-> k \in made]
             res == [k \in Kinds |-> IF k \in made THEN "open" ELSE "none"]
         IN  /\ created' = made
             /\ IF n = Len(StartOrder)
                THEN /\ handles' = h
                     /\ resources' = res
                     /\ bops' = Append(bops, BOp("start", "none"))
                     /\ UNCHANGED <<held, attempts>>
                ELSE /\ \E fails \in SUBSET made : StartCleanup(h, res, fails)
                     /\ bops' = Append(bops, BOp("start", "NetworkError"))
    /\ BrowserFrame

\* close() (also what __aexit__ runs).
BClose ==
    /\ Cardinality(Calls("close")) < MaxCloses
    /\ \E fails \in SUBSET {k \in Kinds : handles[k]} :
         DoClose(handles, resources, fails)
    /\ bops' = Append(bops, BOp("close", "none"))
    /\ UNCHANGED created
    /\ BrowserFrame

BrowserInit ==
    /\ handles = NoHandles
    /\ resources = [k \in Kinds |-> "none"]
    /\ created = {}
    /\ held = NoHandles
    /\ attempts = <<>>
    /\ bops = <<>>

BrowserIdle == BrowserInit

BrowserNext ==
    \/ BStart
    \/ BClose

(***************************************************************************)
(*                 login_with_credentials, _detect_rate_limit              *)
(* A URL is named by the marker it contains.  Time is in seconds.          *)
(***************************************************************************)
NoError == [kind |-> "none", wait |-> 0]
Error(kind, wait) == [kind |-> kind, wait |-> wait]

\* What the login page can show after page.goto: its URL, whether a captcha
\* iframe is present and whether the body holds a rate-limit message.
Landings ==
    [url : {"login", "checkpoint", "authwall"}, captcha : BOOLEAN, message : BOOLEAN]
\* Where the page is when wait_for_url returns, and when it times out.
NavigatedUrls == {"feed", "checkpoint", "authwall"}
TimedOutUrls == {"login", "challenge", "other"}
\* Where the page can be taken during a sleep of the poll.
PollUrls == {"checkpoint", "challenge", "login", "authwall", "feed"}
Timeouts == {1, 3}
\* asyncio.sleep(1) sleeps a second or more.
PollSleeps == {1, 2}

\* _detect_rate_limit(page): the error it raises, if any.  The captcha
\* RateLimitError is raised inside "try: ... except Exception: pass".
_detect_rate_limit(l) ==
    IF l.url \in {"checkpoint", "authwall"} THEN Error("RateLimitError", 3600)
    ELSE IF l.message THEN Error("RateLimitError", 1800)
    ELSE NoError

\* The except clauses of login_with_credentials (lines 259-264): what an
\* exception raised inside the try block leaves the function as.
Surfaced(e) ==
    IF e.kind = "AuthenticationError" THEN e ELSE Error("AuthenticationError", 0)

LRaise(e) ==
    /\ inner_err' = e
    /\ login_out' = Surfaced(e)
    /\ gpc' = "raised"

\* The URLs on which the poll goes on.
Blocking(u) == u \in {"checkpoint", "challenge", "login", "authwall"}

\* page.goto of the login page and _detect_rate_limit (lines 205-206).
LGoto ==
    /\ gpc = "start"
    /\ \E l \in Landings, t \in Timeouts :
         /\ landing' = l
         /\ timeout' = t
         /\ page_url' = l.url
         /\ IF _detect_rate_limit(l).kind # "none"
            THEN LRaise(_detect_rate_limit(l))
            ELSE /\ gpc' = "form"
                 /\ UNCHANGED <<inner_err, login_out>>
    /\ UNCHANGED <<elapsed, polls>>
    /\ LoginFrame

\* The form is filled and submitted and the navigation awaited; then the
\* URL is looked at (lines 208-231).
LSubmit ==
    /\ gpc = "form"
    /\ \/ \* wait_for_selector timed out
          /\ LRaise(Error("AuthenticationError", 0))
          /\ UNCHANGED page_url
       \/ \E u \in NavigatedUrls \cup TimedOutUrls :
            /\ page_url' = u
            /\ IF u = "login" \/ u = "authwall"
               THEN LRaise(Error("AuthenticationError", 0))
               ELSE /\ gpc' = IF u \in {"checkpoint", "challenge"}
                              THEN "poll" ELSE "confirm"
                    /\ UNCHANGED <<inner_err, login_out>>
    /\ UNCHANGED <<landing, timeout, elapsed, polls>>
    /\ LoginFrame

\* One test of the while condition and, when it holds, of page.url
\* (lines 240-247).
LPollCheck ==
    /\ gpc = "poll"
    /\ IF elapsed >= timeout
       THEN /\ LRaise(Error("AuthenticationError", 0))
            /\ UNCHANGED polls
       ELSE /\ polls' = polls + 1
            /\ gpc' = IF Blocking(page_url) THEN "sleep" ELSE "confirm"
            /\ UNCHANGED <<inner_err, login_out>>
    /\ UNCHANGED <<landing, page_url, timeout, elapsed>>
    /\ LoginFrame

\* asyncio.sleep(1) of the poll; meanwhile the page may be taken elsewhere.
LPollSleep ==
    /\ gpc = "sleep"
    /\ \E d \in PollSleeps : elapsed' = elapsed + d
    /\ \E u \in PollUrls : page_url' = u
    /\ gpc' = "poll"
    /\ UNCHANGED <<landing, timeout, polls, inner_err, login_out>>
    /\ LoginFrame

\* The confirmation poll (lines 250-257): the function returns whether or
\* not is_logged_in came true.
LConfirm ==
    /\ gpc = "confirm"
    /\ gpc' = "returned"
    /\ login_out' = Error("returned", 0)
    /\ UNCHANGED <<landing, page_url, timeout, elapsed, polls, inner_err>>
    /\ LoginFrame

LoginInit ==
    /\ gpc = "start"
    /\ landing = [url |-> "login", captcha |-> FALSE, message |-> FALSE]
    /\ page_url = "login"
    /\ timeout = 1
    /\ elapsed = 0
    /\ polls = 0
    /\ inner_err = NoError
    /\ login_out = NoError

LoginIdle == LoginInit

LoginNext ==
    \/ LGoto
    \/ LSubmit
    \/ LPollCheck
    \/ LPollSleep
    \/ LConfirm

(***************************************************************************)
(*                          Client.authenticate                            *)
(***************************************************************************)
\* The statuses the credential POST can be answered with, and the bodies:
\* not JSON, JSON that is falsy ({} or null), and a JSON object whose
\* login_result is "PASS", is another value, or is missing.
AuthStatuses == {200, 204, 400, 401, 403, 429, 500}
AuthBodies == {"not_json", "falsy_json", "pass", "challenge", "no_login_result"}

AuthError(kind, status) == [kind |-> kind, status |-> status]

\* Lines 103-110: what is raised once the response is there.
AfterPost(status, body) ==
    IF body = "not_json" THEN AuthError("JSONDecodeError", 0)
    ELSE IF body \in {"challenge", "no_login_result"}
    THEN AuthError("ChallengeError", 0)
    ELSE IF status = 401 THEN AuthError("UnauthorizedError", 0)
    ELSE IF status # 200 THEN AuthError("LinkedInRequestError", status)
    ELSE AuthError("none", 0)

\* authenticate(username, password) up to the response tests.
AAuthenticate ==
    /\ apc = "start"
    /\ IF ~has_jsessionid
       THEN /\ auth_out' = AuthError("KeyError", 0)
            /\ apc' = "raised"
       ELSE LET e == AfterPost(res_status, res_body)
            IN  /\ auth_out' = e
                /\ apc' = IF e.kind = "none" THEN "metadata" ELSE "raised"
    /\ UNCHANGED <<has_jsessionid, res_status, res_body>>
    /\ AuthFrame

\* Lines 112-113: the cookies of the response are set on the session and
\* the metadata fetched; set_cookies needs JSESSIONID among them.
AFinish ==
    /\ apc = "metadata"
    /\ \E cookie \in BOOLEAN :
         IF cookie
         THEN /\ apc' = "returned"
              /\ auth_out' = AuthError("returned", 0)
         ELSE /\ apc' = "raised"
              /\ auth_out' = AuthError("KeyError", 0)
    /\ UNCHANGED <<has_jsessionid, res_status, res_body>>
    /\ AuthFrame

AuthInit ==
    /\ apc = "start"
    /\ has_jsessionid \in BOOLEAN
    /\ res_status \in AuthStatuses
    /\ res_body \in AuthBodies
    /\ auth_out = AuthError("none", 0)

AuthIdle ==
    /\ apc = "start"
    /\ has_jsessionid = TRUE
    /\ res_status = 200
    /\ res_body = "pass"
    /\ auth_out = AuthError("none", 0)

AuthNext ==
    \/ AAuthenticate
    \/ AFinish

(***************************************************************************)
(*             search_linkedin_sync and Linkedin.search_people             *)
(* A person is named by a number (the id inside entityUrn).  A text is     *)
(* "none" when the key is missing or None.                                 *)
(***************************************************************************)
\* Bounds: elements _search returns, and distinct people among them.
MaxItems == 2
MaxPeople == 2

\* title.text of an element, and what its navigationUrl looks like: missing,
\* a /headless URL (a private profile), a path, a bare slug or a full URL.
Titles == {"none", "Ann"}
NavigationUrls == {"none", "headless", "/in/ann", "ann", "https://www.linkedin.com/in/ann"}
RawItems == [urn : 1..MaxPeople, title : Titles, nav : NavigationUrls]

\* The scenario of the specification: seven distinct people, received as
\* pages of five and two.
SevenPeople ==
    [i \in 1..7 |-> [urn |-> i, title |-> "Ann", nav |-> "/in/ann"]]

\* One turn of the loop of search_people (include_private_profiles = True).
SearchPeopleRecord(item) ==
    [urn_id |-> item.urn,
     name |-> item.title,
     navigation_url |-> IF item.nav = "headless" THEN "none" ELSE item.nav]

\* One turn of the loop of search_linkedin_sync: name or the dash, and the
\* URL made absolute ("" when there is no navigation_url).
CandidateUrl(nav) ==
    IF nav = "none" THEN ""
    ELSE IF nav = "https://www.linkedin.com/in/ann" THEN nav
    ELSE IF nav = "/in/ann" THEN "https://www.linkedin.com/in/ann"
    ELSE "https://www.linkedin.com/in/ann"
Candidate(r) ==
    [urn_id |-> r.urn_id,
     full_name |-> IF r.name = "none" THEN "-" ELSE r.name,
     url |-> CandidateUrl(r.navigation_url)]

\* api.search_people(...), after _search returned raw_items.
CSearchPeople ==
    /\ cpc = "start"
    /\ sp_results' = [i \in 1..Len(raw_items) |-> SearchPeopleRecord(raw_items[i])]
    /\ cpc' = "mapped"
    /\ UNCHANGED <<raw_items, candidates>>
    /\ PeopleFrame

\* The rest of search_linkedin_sync (lines 57-82).
CCandidates ==
    /\ cpc = "mapped"
    /\ candidates' = [i \in 1..Len(sp_results) |-> Candidate(sp_results[i])]
    /\ cpc' = "returned"
    /\ UNCHANGED <<raw_items, sp_results>>
    /\ PeopleFrame

RECURSIVE SeqsUpTo(_, _)
SeqsUpTo(S, n) ==
    IF n = 0 THEN {<<>>}
    ELSE SeqsUpTo(S, n - 1) \cup
         {Append(q, x) : q \in {r \in SeqsUpTo(S, n - 1) : Len(r) = n - 1}, x \in S}

PeopleInit ==
    /\ cpc = "start"
    /\ raw_items \in SeqsUpTo(RawItems, MaxItems) \cup {SevenPeople}
    /\ sp_results = <<>>
    /\ candidates = <<>>

PeopleIdle ==
    /\ cpc = "start"
    /\ raw_items = <<>>
    /\ sp_results = <<>>
    /\ candidates = <<>>

PeopleNext ==
    \/ CSearchPeople
    \/ CCandidates

(***************************************************************************)
(*                       PeopleSearchScraper.search                        *)
(* A card is what _extract_results keeps of one anchor: the profile URL    *)
(* (made absolute, query string cut off) and the name.  Two anchors of one *)
(* page can give the same URL once the query string is cut.                *)
(***************************************************************************)
\* Bound: cards one page yields.
MaxPageCards == 2

MaxPagesValues == {0, 1, 2, 3}
Cards == {[url |-> "u1", name |-> "Ann"], [url |-> "u1", name |-> "Bob"],
          [url |-> "u2", name |-> "Ann"]}

RECURSIVE CardSeqs(_)
CardSeqs(n) ==
    IF n = 0 THEN {<<>>}
    ELSE CardSeqs(n - 1) \cup
         {Append(q, c) : q \in {r \in CardSeqs(n - 1) : Len(r) = n - 1}, c \in Cards}

Reverse(q) == [i \in 1..Len(q) |-> q[Len(q) + 1 - i]]

\* The loop of lines 886-891: seen is the set of URLs, acc the list unique.
RECURSIVE DedupFrom(_, _, _)
DedupFrom(rest, seen, acc) ==
    IF rest = <<>> THEN acc
    ELSE IF Head(rest).url \in seen THEN DedupFrom(Tail(rest), seen, acc)
    ELSE DedupFrom(Tail(rest), seen \cup {Head(rest).url}, Append(acc, Head(rest)))

Deduplicate_KeepsLast(all) == Reverse(DedupFrom(Reverse(all), {}, <<>>))

Deduplicate(all) == DedupFrom(all, {}, <<>>)

\* Lines 843-850.
KBegin ==
    /\ kpc = "start"
    /\ max_pages' = IF max_pages < 1 THEN 1 ELSE max_pages
    /\ page_num' = 1
    /\ kpc' = "loop"
    /\ UNCHANGED <<all_results, pages_scraped, klog, unique>>
    /\ ScraperFrame

\* One turn of the loop (lines 852-883): the page is navigated to, yields
\* cards and shows or does not show the next-page control.
KPage ==
    /\ kpc = "loop"
    /\ page_num <= max_pages
    /\ \E cards \in CardSeqs(MaxPageCards), next \in BOOLEAN :
         /\ klog' = Append(klog, [page |-> page_num, cards |-> cards,
                                  next |-> next, before |-> all_results])
         /\ pages_scraped' = pages_scraped + 1
         /\ all_results' = all_results \o cards
         /\ IF cards = <<>> \/ (page_num < max_pages /\ ~next)
                \/ page_num = max_pages
            THEN kpc' = "dedup" /\ page_num' = page_num
            ELSE kpc' = "loop" /\ page_num' = page_num + 1
    /\ UNCHANGED <<max_pages, unique>>
    /\ ScraperFrame

\* page.goto or _detect_rate_limit raises: the call ends with the error.
KRaise ==
    /\ kpc = "loop"
    /\ page_num <= max_pages
    /\ klog' = Append(klog, [page |-> page_num, cards |-> <<>>,
                             next |-> FALSE, before |-> all_results])
    /\ kpc' = "raised"
    /\ UNCHANGED <<max_pages, page_num, all_results, pages_scraped, unique>>
    /\ ScraperFrame

\* Lines 885-900.
KDedup ==
    /\ kpc = "dedup"
    /\ unique' = Deduplicate(all_results)
    /\ kpc' = "returned"
    /\ UNCHANGED <<max_pages, page_num, all_results, pages_scraped, klog>>
    /\ ScraperFrame

ScraperInit ==
    /\ kpc = "start"
    /\ max_pages \in MaxPagesValues
    /\ page_num = 0
    /\ all_results = <<>>
    /\ pages_scraped = 0
    /\ klog = <<>>
    /\ unique = <<>>

ScraperIdle ==
    /\ kpc = "start"
    /\ max_pages = 1
    /\ page_num = 0
    /\ all_results = <<>>
    /\ pages_scraped = 0
    /\ klog = <<>>
    /\ unique = <<>>

ScraperNext ==
    \/ KBegin
    \/ KPage
    \/ KRaise
    \/ KDedup

(***************************************************************************)
(*             get_profile: section extraction and cleaning                *)
(* After _resolve an element of a list of references is the entity (a      *)
(* dict) or, when the reference is missing from the included entities,     *)
(* still the reference string.  A dict is a function from its keys.        *)
(***************************************************************************)
\* Bound: elements of one section.
MaxSectionElements == 2

Sections == {"experience", "education", "certifications", "publications",
             "skills", "languages"}

None == [kind |-> "None"]
Str == [kind |-> "str"]
Dict(d) == [kind |-> "dict", d |-> d]

\* The start or end part of a date range: a missing key, a dict with any of
\* the keys year, month, day, or a value that is not a dict.
DateKeys == {"year", "month", "day"}
DateValue(k) == IF k = "year" THEN 2019 ELSE IF k = "month" THEN 6 ELSE 15
DateDicts == {[k \in S |-> DateValue(k)] : S \in SUBSET DateKeys}
DateParts == {[kind |-> "absent"], Str} \cup {Dict(d) : d \in DateDicts}

\* e["dateRange"]: missing, a dict with the two parts, or not a dict.
DateRanges ==
    {[kind |-> "absent"], Str}
    \cup {[kind |-> "dict", start |-> a, end |-> b] : a, b \in DateParts}
ExampleRange ==
    [kind |-> "dict", start |-> Dict([year |-> 2019, month |-> 6]),
     end |-> Dict([k \in {} |-> 0])]

Names == {"", "n"}
Entity(n, dr) == [kind |-> "dict", name |-> n, dateRange |-> dr]
AllEntities == {Entity("n", dr) : dr \in DateRanges}
FewEntities == {Entity(n, dr) : n \in Names, dr \in {[kind |-> "absent"], ExampleRange}}
\* An element of profilePositionGroups: a group holding one position.
Group(pos) == [kind |-> "group", pos |-> pos]

SectionElements(sec, ents) ==
    IF sec = "experience"
    THEN {Str} \cup {Group(e) : e \in ents \cup {Str}}
    ELSE {Str} \cup ents

RECURSIVE ListsUpTo(_, _)
ListsUpTo(S, n) ==
    IF n = 0 THEN {<<>>}
    ELSE ListsUpTo(S, n - 1) \cup
         {Append(q, x) : q \in {r \in ListsUpTo(S, n - 1) : Len(r) = n - 1}, x \in S}

\* The body of the loop over ("start", "end") in _simplify_date.
_simplify_part_KeepsDay(part) ==
    IF part.kind = "dict"
    THEN IF DOMAIN part.d = {} THEN None ELSE Dict(part.d)
    ELSE None

_simplify_part(part) ==
    IF part.kind = "dict"
    THEN LET s == [k \in (DOMAIN part.d) \cap {"year", "month"} |-> part.d[k]]
         IN  IF DOMAIN s = {} THEN None ELSE Dict(s)
    ELSE None

\* dates in _clean_exp, _clean_edu, _clean_cert; dr is truthy and a dict, or
\* falsy (missing, or a dict without keys).
Falsy(dr) ==
    \/ dr.kind = "absent"
    \/ dr.kind = "dict" /\ dr.start.kind = "absent" /\ dr.end.kind = "absent"
Dates(dr) ==
    IF Falsy(dr) THEN [start |-> None, end |-> None]
    ELSE [start |-> _simplify_part(dr.start), end |-> _simplify_part(dr.end)]

\* Whether the cleaner of the section raises AttributeError on the element:
\* e.get on a string, or dr.get on a date range that is not a dict.
CleanRaises(sec, e) ==
    /\ sec \in {"experience", "education", "certifications", "publications"}
    /\ \/ e.kind = "str"
       \/ sec # "publications" /\ e.dateRange.kind = "str"

CleanOne(sec, e) ==
    IF sec \in {"experience", "education"}
    THEN [name |-> e.name, startDate |-> Dates(e.dateRange).start,
          endDate |-> Dates(e.dateRange).end]
    ELSE IF sec = "certifications"
    THEN [name |-> e.name, startDate |-> Dates(e.dateRange).start]
    ELSE [name |-> e.name]

RECURSIVE Positions(_)
Positions(groups) ==
    IF groups = <<>> THEN <<>>
    ELSE IF Head(groups).kind = "group"
         THEN <<Head(groups).pos>> \o Positions(Tail(groups))
         ELSE Positions(Tail(groups))

RECURSIVE NamedDicts(_)
NamedDicts(q) ==
    IF q = <<>> THEN <<>>
    ELSE IF Head(q).kind = "dict" /\ Head(q).name # ""
         THEN <<Head(q)>> \o NamedDicts(Tail(q))
         ELSE NamedDicts(Tail(q))

\* _extract_profile_section on the section (lines 53-65).
XExtract ==
    /\ xpc = "start"
    /\ extracted' = IF section = "experience" THEN Positions(elements) ELSE elements
    /\ xpc' = "extracted"
    /\ UNCHANGED <<section, elements, cleaned>>
    /\ CleanFrame

\* _clean_sections on the section, and the return of get_profile.
XClean ==
    /\ xpc = "extracted"
    /\ IF \E i \in 1..Len(extracted) : CleanRaises(section, extracted[i])
       THEN xpc' = "AttributeError" /\ cleaned' = cleaned
       ELSE /\ xpc' = "returned"
            /\ cleaned' =
                 IF section \in {"skills", "languages"}
                 THEN LET kept == NamedDicts(extracted)
                      IN  [i \in 1..Len(kept) |-> CleanOne(section, kept[i])]
                 ELSE [i \in 1..Len(extracted) |-> CleanOne(section, extracted[i])]
    /\ UNCHANGED <<section, elements, extracted>>
    /\ CleanFrame

CleanInit ==
    /\ xpc = "start"
    /\ section \in Sections
    /\ elements \in ListsUpTo(SectionElements(section, FewEntities), MaxSectionElements)
                      \cup {<<e>> : e \in SectionElements(section, AllEntities)}
    /\ extracted = <<>>
    /\ cleaned = <<>>

CleanIdle ==
    /\ xpc = "start"
    /\ section = "experience"
    /\ elements = <<>>
    /\ extracted = <<>>
    /\ cleaned = <<>>

CleanNext ==
    \/ XExtract
    \/ XClean

(***************************************************************************)
(*          Application sessions: login, get_current_user, logout          *)
(* A session token is a uuid4; the model numbers the tokens in the order   *)
(* they are generated, so a token is never generated twice.  Each handler  *)
(* runs in one database transaction (get_db commits after it).             *)
(***************************************************************************)
\* Bounds: tokens generated, days that pass.
MaxLogins == 1
MaxDays == 8

SESSION_LIFETIME_DAYS == 7
\* Days that pass between two requests.
TickDays == {3, 4}

NoCookie == 0
AppUsers == {"user"}
\* Cookies a request can carry: none, a generated token, one never generated.
CookieValues == 0..(MaxLogins + 1)

SessionRow(tok, user, now) ==
    [token |-> tok, user_id |-> user, expires_at |-> now + SESSION_LIFETIME_DAYS]

\* The select of get_current_user (lines 31-37).
Admits_IgnoresExpiry(tok, rows, now) ==
    tok # NoCookie /\ \E r \in rows : r.token = tok

Admits(tok, rows, now) ==
    tok # NoCookie /\ \E r \in rows : r.token = tok /\ r.expires_at > now

NoRequest == [token |-> NoCookie, status |-> 0, at |-> 0, rows |-> {},
              after_logout |-> FALSE]

\* POST /api/auth/login with the password of an existing user.
SLogin ==
    /\ issued < MaxLogins
    /\ \E u \in db_users :
         db_sessions' = db_sessions \cup {SessionRow(issued + 1, u, db_now)}
    /\ issued' = issued + 1
    /\ UNCHANGED <<db_now, db_users, logged_out, last_request>>
    /\ SessFrame

\* A request to a protected API endpoint: get_current_user.
SProtected ==
    /\ \E tok \in CookieValues :
         LET found == Admits(tok, db_sessions, db_now)
             user_found == found /\ \E r \in db_sessions :
                              r.token = tok /\ r.user_id \in db_users
         IN  last_request' = [token |-> tok,
                              status |-> IF user_found THEN 200 ELSE 401,
                              at |-> db_now, rows |-> db_sessions,
                              after_logout |-> tok \in logged_out]
    /\ UNCHANGED <<db_now, db_users, db_sessions, issued, logged_out>>
    /\ SessFrame

\* POST /api/auth/logout.
SLogout ==
    /\ \E tok \in CookieValues :
         /\ db_sessions' = IF tok = NoCookie THEN db_sessions
                           ELSE {r \in db_sessions : r.token # tok}
         /\ logged_out' = IF db_sessions' # db_sessions
                          THEN logged_out \cup {tok} ELSE logged_out
    /\ UNCHANGED <<db_now, db_users, issued, last_request>>
    /\ SessFrame

\* DELETE of a user by an admin: the sessions relationship cascades.
SDeleteUser ==
    /\ \E u \in db_users :
         /\ db_users' = db_users \ {u}
         /\ db_sessions' = {r \in db_sessions : r.user_id # u}
    /\ UNCHANGED <<db_now, issued, logged_out, last_request>>
    /\ SessFrame

\* Start of the application: expired sessions are deleted.
SLifespan ==
    /\ db_sessions' = {r \in db_sessions : ~(r.expires_at < db_now)}
    /\ db_sessions' # db_sessions
    /\ UNCHANGED <<db_now, db_users, issued, logged_out, last_request>>
    /\ SessFrame

STick ==
    /\ \E d \in TickDays :
         /\ db_now + d <= MaxDays
         /\ db_now' = db_now + d
    /\ UNCHANGED <<db_users, db_sessions, issued, logged_out, last_request>>
    /\ SessFrame

SessInit ==
    /\ db_now = 0
    /\ db_users = AppUsers
    /\ db_sessions = {}
    /\ issued = 0
    /\ logged_out = {}
    /\ last_request = NoRequest

SessIdle == SessInit

SessNext ==
    \/ SLogin
    \/ SProtected
    \/ SLogout
    \/ SDeleteUser
    \/ SLifespan
    \/ STick

(***************************************************************************)
(*                           Client.set_cookies                            *)
(* A jar is told from another by its li_at cookie; its JSESSIONID cookie   *)
(* is missing or a value that may be wrapped in double quotes.             *)
(***************************************************************************)
NoValue == [quoted |-> FALSE, body |-> "none"]
JSessionIds == {[quoted |-> q, body |-> b] : q \in BOOLEAN, b \in {"ajax:1", "ajax:2"}}
CookieJars == [li_at : {"x", "y"}, JSESSIONID : JSessionIds \cup {NoValue}]
\* requests.Session(): an empty jar, no csrf-token header.
EmptyJar == [li_at |-> "none", JSESSIONID |-> NoValue]
NoHeader == "none"

\* value.strip('"')
StripQuotes(v) == v.body

\* The two statements of set_cookies; the second raises KeyError when the
\* jar has no JSESSIONID.
TSetCookies ==
    /\ \E cookies \in CookieJars :
         /\ session_cookies' = cookies
         /\ IF cookies.JSESSIONID = NoValue
            THEN set_out' = "KeyError" /\ csrf_token' = csrf_token
            ELSE set_out' = "returned"
                 /\ csrf_token' = StripQuotes(session_cookies'.JSESSIONID)
    /\ prev_cookies' = session_cookies
    /\ prev_token' = csrf_token
    /\ CookiesFrame

CookiesInit ==
    /\ session_cookies = EmptyJar
    /\ csrf_token = NoHeader
    /\ prev_cookies = EmptyJar
    /\ prev_token = NoHeader
    /\ set_out = "none"

CookiesIdle == CookiesInit

CookiesNext ==
    \/ TSetCookies

(***************************************************************************)
(*                            Specifications                               *)
(***************************************************************************)
InitRL == RLInit /\ OrchIdle /\ QidIdle /\ SearchIdle /\ ResolveIdle
    /\ ProfileIdle /\ BrowserIdle /\ LoginIdle /\ AuthIdle
    /\ PeopleIdle
    /\ ScraperIdle
    /\ CleanIdle
    /\ SessIdle
    /\ CookiesIdle
SpecRL == InitRL /\ [][RLNext]_vars

InitRLReset == RLInit /\ OrchIdle /\ QidIdle /\ SearchIdle /\ ResolveIdle
    /\ ProfileIdle /\ BrowserIdle /\ LoginIdle /\ AuthIdle
    /\ PeopleIdle
    /\ ScraperIdle
    /\ CleanIdle
    /\ SessIdle
    /\ CookiesIdle
SpecRLReset == InitRLReset /\ [][RLResetNext]_vars

\* A fresh limiter of one request per minute, used by several threads.
InitRLConc == RLIdle /\ OrchIdle /\ QidIdle /\ SearchIdle /\ ResolveIdle
    /\ ProfileIdle /\ BrowserIdle /\ LoginIdle /\ AuthIdle
    /\ PeopleIdle
    /\ ScraperIdle
    /\ CleanIdle
    /\ SessIdle
    /\ CookiesIdle
SpecRLConc == InitRLConc /\ [][RLConcNext]_vars

InitRLConfig == RLConfigInit /\ OrchIdle /\ QidIdle /\ SearchIdle /\ ResolveIdle
    /\ ProfileIdle /\ BrowserIdle /\ LoginIdle /\ AuthIdle
    /\ PeopleIdle
    /\ ScraperIdle
    /\ CleanIdle
    /\ SessIdle
    /\ CookiesIdle
SpecRLConfig == InitRLConfig /\ [][RLNext]_vars

InitOrch == OrchInit /\ RLIdle /\ QidIdle /\ SearchIdle /\ ResolveIdle
    /\ ProfileIdle /\ BrowserIdle /\ LoginIdle /\ AuthIdle
    /\ PeopleIdle
    /\ ScraperIdle
    /\ CleanIdle
    /\ SessIdle
    /\ CookiesIdle
SpecOrch == InitOrch /\ [][OrchNext]_vars

InitQid == QidInit /\ RLIdle /\ OrchIdle /\ SearchIdle /\ ResolveIdle
    /\ ProfileIdle /\ BrowserIdle /\ LoginIdle /\ AuthIdle
    /\ PeopleIdle
    /\ ScraperIdle
    /\ CleanIdle
    /\ SessIdle
    /\ CookiesIdle
SpecQid == InitQid /\ [][QidNext]_vars
SpecQidConc == InitQid /\ [][QidConcNext]_vars

InitSearch == SearchInit /\ QidInit /\ RLIdle /\ OrchIdle /\ ResolveIdle
    /\ ProfileIdle /\ BrowserIdle /\ LoginIdle /\ AuthIdle
    /\ PeopleIdle
    /\ ScraperIdle
    /\ CleanIdle
    /\ SessIdle
    /\ CookiesIdle
SpecSearch == InitSearch /\ [][SearchNext]_vars

SpecSearchSteady == InitSearch /\ [][SearchSteadyNext]_vars

InitResolve == ResolveInit /\ RLIdle /\ OrchIdle /\ QidIdle /\ SearchIdle
    /\ ProfileIdle /\ BrowserIdle /\ LoginIdle /\ AuthIdle
    /\ PeopleIdle
    /\ ScraperIdle
    /\ CleanIdle
    /\ SessIdle
    /\ CookiesIdle
SpecResolve == InitResolve /\ [][ResolveNext]_vars

InitProfile == ProfileInit /\ RLIdle /\ OrchIdle /\ QidIdle /\ SearchIdle
    /\ ResolveIdle /\ BrowserIdle /\ LoginIdle /\ AuthIdle
    /\ PeopleIdle
    /\ ScraperIdle
    /\ CleanIdle
    /\ SessIdle
    /\ CookiesIdle
SpecProfile == InitProfile /\ [][ProfileNext]_vars

InitBrowser == BrowserInit /\ RLIdle /\ OrchIdle /\ QidIdle /\ SearchIdle
    /\ ResolveIdle /\ ProfileIdle /\ LoginIdle /\ AuthIdle
    /\ PeopleIdle
    /\ ScraperIdle
    /\ CleanIdle
    /\ SessIdle
    /\ CookiesIdle
SpecBrowser == InitBrowser /\ [][BrowserNext]_vars

InitLogin == LoginInit /\ RLIdle /\ OrchIdle /\ QidIdle /\ SearchIdle
    /\ ResolveIdle /\ ProfileIdle /\ BrowserIdle /\ AuthIdle
    /\ PeopleIdle
    /\ ScraperIdle
    /\ CleanIdle
    /\ SessIdle
    /\ CookiesIdle
SpecLogin == InitLogin /\ [][LoginNext]_vars

InitAuth == AuthInit /\ RLIdle /\ OrchIdle /\ QidIdle /\ SearchIdle
    /\ ResolveIdle /\ ProfileIdle /\ BrowserIdle /\ LoginIdle
    /\ PeopleIdle
    /\ ScraperIdle
    /\ CleanIdle
    /\ SessIdle
    /\ CookiesIdle
SpecAuth == InitAuth /\ [][AuthNext]_vars

InitPeople == PeopleInit
    /\ AuthIdle
    /\ BrowserIdle
    /\ LoginIdle
    /\ OrchIdle
    /\ ProfileIdle
    /\ QidIdle
    /\ RLIdle
    /\ ResolveIdle
    /\ SearchIdle
    /\ ScraperIdle
    /\ CleanIdle
    /\ SessIdle
    /\ CookiesIdle
SpecPeople == InitPeople /\ [][PeopleNext]_vars

InitScraper == ScraperInit
    /\ AuthIdle
    /\ BrowserIdle
    /\ LoginIdle
    /\ OrchIdle
    /\ PeopleIdle
    /\ ProfileIdle
    /\ QidIdle
    /\ RLIdle
    /\ ResolveIdle
    /\ SearchIdle
    /\ CleanIdle
    /\ SessIdle
    /\ CookiesIdle
SpecScraper == InitScraper /\ [][ScraperNext]_vars

InitClean == CleanInit
    /\ AuthIdle
    /\ BrowserIdle
    /\ LoginIdle
    /\ OrchIdle
    /\ PeopleIdle
    /\ ProfileIdle
    /\ QidIdle
    /\ RLIdle
    /\ ResolveIdle
    /\ ScraperIdle
    /\ SearchIdle
    /\ SessIdle
    /\ CookiesIdle
SpecClean == InitClean /\ [][CleanNext]_vars

InitSess == SessInit
    /\ AuthIdle
    /\ BrowserIdle
    /\ CleanIdle
    /\ LoginIdle
    /\ OrchIdle
    /\ PeopleIdle
    /\ ProfileIdle
    /\ QidIdle
    /\ RLIdle
    /\ ResolveIdle
    /\ ScraperIdle
    /\ SearchIdle
    /\ CookiesIdle
SpecSess == InitSess /\ [][SessNext]_vars

InitCookies == CookiesInit
    /\ AuthIdle
    /\ BrowserIdle
    /\ CleanIdle
    /\ LoginIdle
    /\ OrchIdle
    /\ PeopleIdle
    /\ ProfileIdle
    /\ QidIdle
    /\ RLIdle
    /\ ResolveIdle
    /\ ScraperIdle
    /\ SearchIdle
    /\ SessIdle
SpecCookies == InitCookies /\ [][CookiesNext]_vars

(***************************************************************************)
(*                                Claims                                   *)
(***************************************************************************)
\* C1: no sliding 60-second window (t - 60, t] ever holds more than
\* requests_per_minute of the timestamps wait() recorded.
C1_WindowHoldsAtMostK ==
    \A i \in 1..Len(recorded) :
        Cardinality({j \in 1..Len(recorded) :
                        /\ recorded[j] > recorded[i] - WINDOW_SIZE_SECONDS
                        /\ recorded[j] <= recorded[i]}) <= rpm

Ops(op) == {i \in 1..Len(olog) : olog[i].op = op}
LoggedWith(op, outcomes) == \E i \in Ops(op) : olog[i].res \in outcomes
LoggedBefore(i, op, outcomes) ==
    \E j \in 1..(i - 1) : olog[j].op = op /\ olog[j].res \in outcomes

\* C2: the scraper runs only after the first structured search failed and
\* the refresh tier failed (its login or its retried search) or could not
\* run; and when the first search raised Unauthorized and both the re-login
\* and the second search succeeded, the call returns the API results with
\* the cookies of the re-login as cookies_to_persist and no scraper ran.
C2_ScraperOnlyAfterBothTiers ==
    /\ \A i \in Ops("scraper") :
          /\ LoggedBefore(i, "search1", ApiErrors)
          /\ \/ LoggedBefore(i, "refresh_login", LoginErrors)
             \/ LoggedBefore(i, "search2", ApiErrors)
             \/ /\ Ops("refresh_login") = {}
                /\ (Strip(cred.username) = "" \/ cred.password = "")
    /\ ( /\ LoggedWith("search1", {"UnauthorizedError"})
         /\ LoggedWith("refresh_login", {"ok", "ok_empty"})
         /\ LoggedWith("search2", {"ok"}) )
       => /\ opc = "returned"
          /\ oresult.candidates = "api"
          /\ oresult.cookies_to_persist = Created
          /\ oresult.cookies_to_persist # NoCookies
          /\ Ops("scraper") = {}

C2_RefreshedSearchReturned ==
    /\ opc = "returned"
    /\ LoggedWith("search1", {"UnauthorizedError"})
    /\ LoggedWith("refresh_login", {"ok"})
    /\ LoggedWith("search2", {"ok"})
    /\ cred.cookies = "dict"

\* C3: a successful return hands back, as cookies_to_persist, the cookie
\* state created last in the invocation, and None only when none was created.
C3_FreshestCookiesReturned ==
    opc = "returned" =>
        oresult.cookies_to_persist = (IF Created > 0 THEN Created ELSE NoCookies)

\* C4: a credential with neither stored cookies nor a username/password pair
\* makes search_linkedin raise the configuration error as its first step,
\* with no login, no structured search and no scraper run.
C4_NoCredentialFailsFast ==
    ( /\ cred.decrypts
      /\ cred.cookies \in {"none", "emptydict"}
      /\ (cred.username = "" \/ cred.password = "") )
    => /\ olog = <<>>
       /\ opc \in {"start", "raised"}
       /\ opc = "raised" => oresult.kind = "ValueError: not connected"

C4_ConfigurationErrorRaised ==
    /\ cred.decrypts
    /\ cred.cookies = "none"
    /\ cred.username = "user"
    /\ cred.password = ""
    /\ opc = "raised"
    /\ oresult.kind = "ValueError: not connected"

\* C5: one invocation makes at most one refresh login, at most two
\* structured searches and at most one scraper run, whatever fails.
C5_TiersRunAtMostOnce ==
    /\ Cardinality(Ops("refresh_login")) <= 1
    /\ Cardinality(Ops("search1") \cup Ops("search2")) <= 2
    /\ Cardinality(Ops("search1")) <= 1
    /\ Cardinality(Ops("scraper")) <= 1

C5_AllTiersFailed ==
    /\ opc = "raised"
    /\ Cardinality(Ops("refresh_login")) = 1
    /\ Cardinality(Ops("search1") \cup Ops("search2")) = 2
    /\ Cardinality(Ops("scraper")) = 1

Done(t) == fpc[t] = "done"
Refused(status) == status \notin {200, 500}

\* C6: in calls made one after the other, a call whose request for the
\* active id is answered 500 and whose request for a fallback id is answered
\* 200 succeeds and leaves that fallback as the active id; every call asks
\* first for the id that answered 200 last, and when that answers 200 again
\* it is the only request of the call and the active id stays.
C6_FallbackBecomesActive ==
    /\ fpc[Searcher] = "first" /\ lastGood # NoQueryId => fqid[Searcher] = lastGood
    /\ Done(Searcher) =>
          LET reqs == freqs[Searcher]
              last == reqs[Len(reqs)]
          IN  /\ reqs[1].qid = fstart[Searcher]
              /\ ( /\ reqs[1].status = 500
                   /\ \E i \in 2..Len(reqs) : reqs[i].status = 200 )
                 => /\ fout[Searcher].kind = "ok"
                    /\ last.status = 200
                    /\ last.qid # fstart[Searcher]
                    /\ active = last.qid
              /\ reqs[1].status = 200
                 => /\ Len(reqs) = 1
                    /\ fout[Searcher].kind = "ok"
                    /\ active = fstart[Searcher]

C6_SecondCallUsesFallbackOnly ==
    /\ Done(Searcher)
    /\ calls[Searcher] = 2
    /\ backendChanges = 0
    /\ backend[SEARCH_QUERY_IDS[1]] = 500
    /\ freqs[Searcher] = <<Request(SEARCH_QUERY_IDS[2], 200)>>
    /\ active = SEARCH_QUERY_IDS[2]

\* C7: a request answered with a status other than 200 and 500 ends the
\* call at once with the error of that status (UnauthorizedError for 401),
\* no further query id is requested and the active id is unchanged; the
\* active id is unchanged too when every id answered 500.
C7_OtherFailuresPropagate ==
    Done(Searcher) =>
        LET reqs == freqs[Searcher]
        IN  /\ \A i \in 1..Len(reqs) :
                  Refused(reqs[i].status) =>
                      /\ i = Len(reqs)
                      /\ fout[Searcher] =
                             [kind |-> IF reqs[i].status = 401
                                       THEN "UnauthorizedError"
                                       ELSE "LinkedInRequestError",
                              status |-> reqs[i].status]
                      /\ frot[Searcher] = NoQueryId
                      /\ active = fstart[Searcher]
            /\ (\A i \in 1..Len(reqs) : reqs[i].status = 500)
                  => /\ fout[Searcher].kind = "LinkedInRequestError: all ids returned 500"
                     /\ {reqs[i].qid : i \in 1..Len(reqs)} = QueryIds
                     /\ frot[Searcher] = NoQueryId
                     /\ active = fstart[Searcher]

C7_ForbiddenNotRetried ==
    /\ Done(Searcher)
    /\ freqs[Searcher] = <<Request(SEARCH_QUERY_IDS[1], 403)>>
    /\ backend[SEARCH_QUERY_IDS[2]] = 200

\* C8: with searches running concurrently, a call succeeds whenever every
\* query id is answered 200 or 500 and at least one of them 200.
C8_StaleReadStillSucceeds ==
    \A t \in Threads :
        ( /\ Done(t)
          /\ \A q \in QueryIds : backend[q] \in {200, 500}
          /\ \E q \in QueryIds : backend[q] = 200 )
        => fout[t].kind = "ok"

\* C9: resolving a graph never raises, whatever the references point at (an
\* entity on the path, a cycle, a key missing from the lookup), and a
\* reference that is not resolved is returned as the reference string.
C9_ResolveNeverRaises ==
    /\ rpc # "raised"
    /\ rpc = "returned" =>
          \A i \in 1..Len(rvalue) :
              ~rvalue[i].resolved => i = Len(rvalue)

RECURSIVE Concat(_, _)
Concat(ps, p) ==
    IF p > Len(ps) THEN <<>> ELSE Elements(p, ps[p]) \o Concat(ps, p + 1)
RECURSIVE Total(_, _)
Total(ps, p) == IF p = 0 THEN 0 ELSE PageLen(ps[p]) + Total(ps, p - 1)

\* C10: the results are the elements of the pages received, in order; no
\* page is requested after a page without elements or once the accumulated
\* count has reached limit; pages of 50, 50 and 0 elements with limit = 120
\* give 100 results after three requests.
C10_PagesInOrderUntilStop ==
    /\ results = Concat(pages, 1)
    /\ \A p \in 1..(nreq - 1) :
          /\ p <= Len(pages)
          /\ PageLen(pages[p]) > 0
          /\ limit > -1 => Total(pages, p) < limit
    /\ (limit = 120 /\ pages = <<50, 50, 0>>)
          => /\ spc = "done"
             /\ sout = "ok"
             /\ Len(results) = 100
             /\ nreq = 3

C10_FiftyFiftyZero ==
    /\ spc = "done"
    /\ limit = 120
    /\ pages = <<50, 50, 0>>
    /\ Len(results) = 100

Resets == {i \in 1..Len(rlog) : rlog[i].op = "reset"}

\* C11: after reset() the limiter holds no timestamp and no last-request
\* marker, whatever calls came before, and the wait() that follows gets the
\* delay of a first call, between min_delay / 2 and min_delay.
C11_ResetThenFirstCall ==
    /\ \A i \in Resets :
          i < Len(rlog) /\ rlog[i + 1].op = "wait"
            => /\ rlog[i + 1].delay >= FIRST_REQUEST_DELAY(min_delay)
               /\ rlog[i + 1].delay <= min_delay
    /\ Len(rlog) \in Resets
          => request_times = <<>> /\ last_request_time = NoTime

\* A reset() of a limiter whose window was full, then a wait().
C11_WaitAfterResetOfFullWindow ==
    \E i \in Resets :
        /\ i > rpm
        /\ \A j \in 1..(i - 1) : rlog[j].op = "wait"
        /\ i < Len(rlog)
        /\ rlog[i + 1].op = "wait"

RECURSIVE NonDecreasing(_)
NonDecreasing(q) ==
    Len(q) < 2 \/ (q[1] <= q[2] /\ NonDecreasing(Tail(q)))

\* C13: under any interleaving of wait() and reset() calls of several
\* threads, at most one call is inside its locked section, and whenever none
\* is, the queue is in non-decreasing order and last_request_time is unset
\* with an empty queue or equal to the newest timestamp of the queue.
C13_QueueAndMarkerUnderLock ==
    /\ Cardinality({t \in Threads : lpc[t] # "idle"}) <= 1
    /\ (\A t \in Threads : lpc[t] = "idle")
         => /\ NonDecreasing(request_times)
            /\ \/ request_times = <<>> /\ last_request_time = NoTime
               \/ /\ request_times # <<>>
                  /\ last_request_time = request_times[Len(request_times)]

\* wait() calls and a reset() of the threads have completed, in an order
\* that leaves a timestamp in the queue, and no call holds the lock.
C13_ThreadsInterleaved ==
    /\ \A t \in Threads : lpc[t] = "idle"
    /\ Len(recorded) >= 2
    /\ Resets # {}
    /\ request_times # <<>>

\* C14: every HTTP request get_profile sends to LinkedIn, the profile page
\* of the public-id resolution included, comes right after a wait() call
\* of its own.
C14_EveryRequestAfterWait ==
    \A i \in 1..Len(plog) :
        plog[i].ev = "request" => i > 1 /\ plog[i - 1].ev = "wait"

LastOp == bops[Len(bops)]
Attempted(k) == \E i \in 1..Len(attempts) : attempts[i].kind = k
ClosedOk(k) == \E i \in 1..Len(attempts) : attempts[i].kind = k /\ attempts[i].ok

C16_CloseInOrderAndIdempotent ==
    (bops # <<>> /\ LastOp.op = "close") =>
        /\ LastOp.raised = "none"
        /\ handles = NoHandles
        /\ [i \in 1..Len(attempts) |-> attempts[i].kind]
             = SelectSeq(CloseOrder, LAMBDA k : held[k])
        /\ (Len(bops) >= 2 /\ bops[Len(bops) - 1].op = "close")
             => attempts = <<>>

\* The page failed to close, the other three resources were closed all the
\* same, and close() was called once more.
C16_ClosedTwiceAfterPageFailure ==
    /\ Len(bops) >= 3
    /\ LastOp.op = "close"
    /\ bops[Len(bops) - 1].op = "close"
    /\ bops[Len(bops) - 2] = BOp("start", "none")
    /\ resources["page"] = "open"
    /\ \A k \in Kinds \ {"page"} : resources[k] = "closed"

\* C17: when the login page, right after the navigation to it, is on a
\* checkpoint or authwall URL or shows a captcha iframe,
\* login_with_credentials raises RateLimitError with a suggested backoff.
C17_BlockedLandingRaisesRateLimit ==
    (gpc # "start" /\ (landing.url \in {"checkpoint", "authwall"} \/ landing.captcha))
        => /\ gpc = "raised"
           /\ login_out.kind = "RateLimitError"
           /\ login_out.wait > 0

\* C18: the checkpoint poll raises only while the page is still on a
\* checkpoint, challenge, login or authwall URL at the timeout; an authwall
\* after the submission raises AuthenticationError without any poll.
C18_PollRaisesOnlyWhenStillBlocked ==
    /\ (gpc = "raised" /\ polls > 0)
          => /\ login_out.kind = "AuthenticationError"
             /\ elapsed >= timeout
             /\ Blocking(page_url)
    /\ (gpc # "form" /\ gpc # "start" /\ page_url = "authwall" /\ polls = 0)
          => gpc = "raised" /\ login_out.kind = "AuthenticationError"

\* C19: once the credential POST is answered, authenticate raises
\* UnauthorizedError for status 401 whatever the body, and
\* LinkedInRequestError with the status code for every other status
\* outside 200..299.
C19_StatusDecidesTheError ==
    (apc # "start" /\ has_jsessionid) =>
        /\ res_status = 401 => auth_out = AuthError("UnauthorizedError", 0)
        /\ (res_status # 401 /\ (res_status < 200 \/ res_status > 299))
             => auth_out = AuthError("LinkedInRequestError", res_status)

\* The events in which a rate-limit error was raised: by _detect_rate_limit
\* during a login, or by the scraper.
RateLimited(e) == e.res \in {"RateLimitError in login", "RateLimitError"}

\* C20: once a tier of the invocation has raised a rate-limit error, the
\* invocation makes no further login, structured search or scraper run.
C20_NothingAfterRateLimit ==
    \A i \in 1..Len(olog) : RateLimited(olog[i]) => i = Len(olog)

RECURSIVE FirstOccurrences(_, _)
FirstOccurrences(ids, seen) ==
    IF ids = <<>> THEN <<>>
    ELSE IF Head(ids) \in seen THEN FirstOccurrences(Tail(ids), seen)
    ELSE <<Head(ids)>> \o FirstOccurrences(Tail(ids), seen \cup {Head(ids)})

\* C21: the records returned are one per distinct person of the pages, in
\* the order the people were first received, each with a non-empty name and
\* a non-empty profile URL; seven distinct people give seven records.
C21_OneRecordPerPerson ==
    cpc = "returned" =>
        /\ [i \in 1..Len(candidates) |-> candidates[i].urn_id]
             = FirstOccurrences([i \in 1..Len(raw_items) |-> raw_items[i].urn], {})
        /\ \A i \in 1..Len(candidates) :
             candidates[i].full_name # "" /\ candidates[i].url # ""
        /\ raw_items = SevenPeople => Len(candidates) = 7

Urls(q) == {q[i].url : i \in 1..Len(q)}
FirstIndex(q, u) == CHOOSE i \in 1..Len(q) :
    q[i].url = u /\ \A j \in 1..(i - 1) : q[j].url # u

\* C22: the result list of search holds no URL twice; it holds, for every
\* URL collected, the first card collected with that URL, and these cards
\* stand in the order in which they were collected.
C22_UniqueKeepsFirstInOrder ==
    kpc = "returned" =>
        /\ \A i, j \in 1..Len(unique) : unique[i].url = unique[j].url => i = j
        /\ Urls(unique) = Urls(all_results)
        /\ \A i \in 1..Len(unique) :
             unique[i] = all_results[FirstIndex(all_results, unique[i].url)]
        /\ \A i, j \in 1..Len(unique) :
             i < j => FirstIndex(all_results, unique[i].url)
                        < FirstIndex(all_results, unique[j].url)

\* A URL was collected three times, with a different name the first time,
\* and another URL in between.
C22_RepeatedUrlAcrossPages ==
    /\ kpc = "returned"
    /\ Len(unique) = 2
    /\ Len(all_results) >= 4
    /\ \E i, j \in 1..Len(all_results) :
         /\ i < j
         /\ all_results[i].url = all_results[j].url
         /\ all_results[i].name # all_results[j].name

\* Whether a logged page yielded a card whose URL was not collected before.
YieldedNew(e) == \E i \in 1..Len(e.cards) : e.cards[i].url \notin Urls(e.before)

\* C26: no page is navigated to after a page that yielded no card that was
\* not already collected, or after a page without next-page control; pages
\* are visited in increasing order, at most max(1, max_pages) of them.
C26_StopsAtFirstStalePage ==
    /\ \A i \in 1..Len(klog) : klog[i].page = i
    /\ Len(klog) <= Max(1, max_pages)
    /\ \A i \in 1..(Len(klog) - 1) : YieldedNew(klog[i]) /\ klog[i].next

\* What the claim says a cleaned part is: a record with exactly the year and
\* month keys of the input part and their values, or None.
CleanedAsClaimed(part, out) ==
    IF part.kind = "dict" /\ (DOMAIN part.d) \cap {"year", "month"} # {}
    THEN /\ out.kind = "dict"
         /\ DOMAIN out.d = (DOMAIN part.d) \cap {"year", "month"}
         /\ \A k \in DOMAIN out.d : out.d[k] = part.d[k]
         /\ "day" \notin DOMAIN out.d
    ELSE out = None

\* C23: the start and end parts of a date range are cleaned to a record of
\* the year and month keys present in the input, never a day, or to None
\* when the part is absent, not a record, or has neither year nor month.
C23_DatesKeepYearAndMonth ==
    (xpc = "returned" /\ section \in {"experience", "education"}) =>
        \A i \in 1..Len(extracted) :
            extracted[i].dateRange.kind = "dict" =>
                /\ CleanedAsClaimed(extracted[i].dateRange.start, cleaned[i].startDate)
                /\ CleanedAsClaimed(extracted[i].dateRange.end, cleaned[i].endDate)

\* start = {year: 2019, month: 6} and end = {} were cleaned.
C23_ExampleRangeCleaned ==
    /\ xpc = "returned"
    /\ section = "experience"
    /\ Len(extracted) = 1
    /\ extracted[1].dateRange = ExampleRange
    /\ cleaned[1].startDate = Dict([year |-> 2019, month |-> 6])
    /\ cleaned[1].endDate = None

\* A reference of the section's element list (for experience also of a
\* group's position list) was missing from the included entities.
HasMissingRef ==
    \E i \in 1..Len(elements) :
        \/ elements[i].kind = "str"
        \/ elements[i].kind = "group" /\ elements[i].pos.kind = "str"

\* C30: get_profile does not raise when a section's element list holds a
\* reference missing from the included entities; it returns the section
\* without that element, for every section.
C30_MissingRefNeverRaises ==
    (HasMissingRef /\ \A i \in 1..Len(extracted) :
                          extracted[i].kind = "dict" => extracted[i].dateRange.kind # "str")
        => /\ xpc # "AttributeError"
           /\ xpc = "returned" => Len(cleaned) < Len(elements)

\* C24: a request to a protected API endpoint is admitted exactly when its
\* cookie matches a stored session that has not expired, and is answered
\* 401 otherwise (no cookie, unknown token); once a logout has deleted the
\* session of a token, every later request with that token is answered 401.
C24_AdmittedIffLiveSession ==
    last_request # NoRequest =>
        /\ last_request.status \in {200, 401}
        /\ last_request.status = 200 <=>
             \E r \in last_request.rows :
                r.token = last_request.token /\ last_request.at < r.expires_at
        /\ last_request.token = NoCookie => last_request.status = 401
        /\ last_request.after_logout => last_request.status = 401

\* A token was logged out and then rejected while its session would still
\* have been alive.
C24_RejectedAfterLogout ==
    /\ last_request.after_logout
    /\ last_request.status = 401
    /\ last_request.at < SESSION_LIFETIME_DAYS

TokenOf(jar) == IF jar.JSESSIONID = NoValue THEN NoHeader ELSE jar.JSESSIONID.body

\* C29: after any sequence of set_cookies calls the csrf-token header is the
\* unquoted JSESSIONID of the jar the session holds, and a call that failed
\* for want of a JSESSIONID left the jar and the header as they were.
C29_TokenMatchesHeldJar ==
    /\ csrf_token = TokenOf(session_cookies)
    /\ set_out = "KeyError" =>
         session_cookies = prev_cookies /\ csrf_token = prev_token

\* C25: one paginated search issues at most _MAX_REPEATED_REQUESTS page
\* requests, also with no limit and a backend whose every page is non-empty.
C25_AtMost200Requests ==
    nreq <= _MAX_REPEATED_REQUESTS

\* C28: a search with limit L >= 0 never returns more than L results, also
\* when a page holds more elements than the count asked for.
C28_NeverMoreThanLimit ==
    (spc = "done" /\ sout = "ok" /\ limit >= 0) => Len(results) <= limit

\* C27: when an API request of get_profile (the identity lookup or a profile
\* body retrieval) was answered HTTP 401, get_profile ends by raising
\* UnauthorizedError, not by returning a profile or an empty profile.
C27_UnauthorizedReachesCaller ==
    (ppc = "done" /\ \E i \in 1..Len(plog) : plog[i].res = "UnauthorizedError")
        => pout = "UnauthorizedError"
====
